---- MODULE Spec2Model ----
(***************************************************************************)
(* A model of the agi_logger recording session controller                  *)
(* (src/agi_logger/logging_manager.py), of the point-to-point transfer     *)
(* protocol (src/agi_logger/tcp_transfer.py) and of the gate the command   *)
(* line puts in front of a transfer (src/agi_logger/cli.py).               *)
(*                                                                         *)
(* The controller is modelled at the grain of its accesses to shared       *)
(* state: the state file, the process table and the manifest files.  Each  *)
(* caller (and each auto-stop timer) is a thread with a program counter,   *)
(* so the steps of two calls interleave as they do between two controller  *)
(* programs or between a caller and a timer thread.                        *)
(*                                                                         *)
(* Environment: a recorder process may leave the process table at any      *)
(* time (normal exit, crash, kill); the settings file may be edited at any *)
(* time, and every command builds its controller from the file as it is    *)
(* then.  In Spec and SpecRace a process identifier is not handed out      *)
(* twice.                                                                  *)
(***************************************************************************)
EXTENDS Integers, Sequences, FiniteSets, TLC

(* ------------------------------ bounds -------------------------------- *)

\* recorder processes launched in one behaviour (each a fresh pid)
MaxLaunch == 2
\* iterations of stop_recording's wait loop explored (the code's 60 is PollLimit)
MaxPolls == 1
\* the wall clock runs over 0..MaxTime (seconds)
MaxTime == 1

(* ------------------------- program constants -------------------------- *)

\* logging_manager.py:137  for _ in range(60)
PollLimit == 60

Launches == 1..MaxLaunch
Callers == {101, 102}
\* the timer thread scheduled by launch n is thread n
Threads == Callers \cup Launches

(* ------------------------------ settings ------------------------------ *)

\* self._logger_cfg, the resolved logger section
Config(topics, duration, mcap, compress, override_qos, qos_exists, max_bag_size) ==
  [topics |-> topics, duration |-> duration, mcap |-> mcap, compress |-> compress,
   override_qos |-> override_qos, qos_exists |-> qos_exists,
   max_bag_size |-> max_bag_size]

\* the settings the controller behaviours are explored under
CtlConfigs ==
  { Config(<<>>, 0, FALSE, FALSE, FALSE, FALSE, 0),
    Config(<<"/b", "/a">>, 1, FALSE, FALSE, FALSE, FALSE, 0),
    Config(<<"/a">>, 0, FALSE, FALSE, FALSE, FALSE, 0) }

\* every combination of the switches the command builder reads, over the topic lists
\* of CtlConfigs (topics are topic names), with max_bag_size unset or 1 (GiB) and
\* without a maximum duration
BuildConfigs ==
  { Config(topics, 0, mcap, compress, override_qos, qos_exists, max_bag_size) :
      topics \in {<<>>, <<"/a">>, <<"/b", "/a">>},
      mcap \in BOOLEAN, compress \in BOOLEAN,
      override_qos \in BOOLEAN, qos_exists \in BOOLEAN,
      max_bag_size \in {0, 1} }

(* --------------------------- command builder -------------------------- *)

BuildFails_NoCheck(c) == FALSE
\* _build_command raises when the topic list is empty
BuildFails(c) == c.topics = <<>>

BuildCommand_FlatCompression(c, full_bag_path) ==
  <<"ros2", "bag", "record", "-o", full_bag_path>>
  \o (IF c.mcap THEN <<"--storage", "mcap">> ELSE <<>>)
  \o (IF c.compress
        THEN <<"--compression-mode", "file", "--compression-format", "zstd">>
        ELSE <<>>)
  \o (IF c.override_qos /\ c.qos_exists
        THEN <<"--qos-profile-overrides-path", "qos_file">>
        ELSE <<>>)
  \o (IF c.max_bag_size > 0
        THEN <<"--max-bag-size", ToString(c.max_bag_size * 1073741824)>>
        ELSE <<>>)
  \o c.topics

BuildCommand_QosUnchecked(c, full_bag_path) ==
  <<"ros2", "bag", "record", "-o", full_bag_path>>
  \o (IF c.mcap
        THEN <<"--storage", "mcap">>
             \o (IF c.compress
                   THEN <<"--compression-mode", "file", "--compression-format", "zstd">>
                   ELSE <<>>)
        ELSE <<>>)
  \o (IF c.override_qos
        THEN <<"--qos-profile-overrides-path", "qos_file">>
        ELSE <<>>)
  \o (IF c.max_bag_size > 0
        THEN <<"--max-bag-size", ToString(c.max_bag_size * 1073741824)>>
        ELSE <<>>)
  \o c.topics

\* _build_command: the argument vector
BuildCommand(c, full_bag_path) ==
  <<"ros2", "bag", "record", "-o", full_bag_path>>
  \o (IF c.mcap
        THEN <<"--storage", "mcap">>
             \o (IF c.compress
                   THEN <<"--compression-mode", "file", "--compression-format", "zstd">>
                   ELSE <<>>)
        ELSE <<>>)
  \o (IF c.override_qos /\ c.qos_exists
        THEN <<"--qos-profile-overrides-path", "qos_file">>
        ELSE <<>>)
  \o (IF c.max_bag_size > 0
        THEN <<"--max-bag-size", ToString(c.max_bag_size * 1073741824)>>
        ELSE <<>>)
  \o c.topics

(* ----------------------------- state store ---------------------------- *)

\* no state file
Absent == [kind |-> "absent"]
\* what _read_state returns when there is no (readable) record
None == [kind |-> "none"]

RecordingState(pid, bag_name, bag_path, start_time, command) ==
  [kind |-> "state", pid |-> pid, bag_name |-> bag_name, bag_path |-> bag_path,
   start_time |-> start_time, command |-> command]

NoTimer == [st |-> "none"]
FiredTimer == [st |-> "fired"]
PendingTimer(c) == [st |-> "pending", cfg |-> c]

VARIABLES
  cfg,        \* the settings file (its resolved logger section)
  store,      \* content of STATE_FILE: Absent or the JSON document written last
  procs,      \* process table: pid -> "none" (not yet used) | "rec" | "gone" |
              \* "other" (the recorder is gone and another process has its pid)
  manifests,  \* bag_path -> the metadata.txt there, or NoFile
  clock,      \* the wall clock, in seconds
  launched,   \* number of recorder processes launched so far
  timers,     \* launch -> NoTimer | PendingTimer(settings of its controller) | FiredTimer
  th          \* thread -> its frame (pc, operation, locals, result)

\* the auto-start node (ros2_node.py)
VARIABLE
  node       \* its switches, the arming state it saw last and the message it handles

nodeVars == <<node>>

ctlVars == <<cfg, store, procs, manifests, clock, launched, timers, th, node>>

\* the transfer protocol
VARIABLES
  path,      \* name of the file server.file_path points at
  src,       \* that file: NoFile or File(data)
  touched,   \* the source file has been removed or changed since the beginning
  snd,       \* the send_file call
  rcv,       \* the receive_file call in progress
  net,       \* the listening socket and the connection the sender serves
  dest,      \* the file destination/<file_name>: NoFile or its name and data
  conns      \* receive_file calls begun

xferVars == <<path, src, touched, snd, rcv, net, dest, conns>>

\* the node: auto is logger.auto_start, behavior logger.auto_start_behavior, last is
\* self._last_arming_state (Unset for None) and msg the arming state of the message
\* whose callback is running (NoMsg between callbacks)
Unset == "unset"
NoMsg == "none"
Node(auto, behavior) == [auto |-> auto, behavior |-> behavior, last |-> Unset, msg |-> NoMsg]
\* no node runs
Node0 == Node(FALSE, "toggle_arm")
\* msg.arming_state; Armed is msg.ARMING_STATE_ARMED
ArmingStates == {"init", "standby", "armed"}
Armed == "armed"
\* the thread that runs the node's callbacks
NodeThread == 102

\* a thread with no call in progress
Frame0 ==
  [pc |-> "idle", op |-> "none", fg |-> FALSE, mode |-> "none", cfg |-> None,
   irstate |-> None, state |-> None, proc |-> 0, i |-> 0, healed |-> FALSE,
   ret |-> "none", rstate |-> None, via |-> "none", intr |-> FALSE]

\* JSON values of the state file's document
JNum(n) == [t |-> "num", v |-> n]
JStr(x) == [t |-> "str", v |-> x]
JArr(q) == [t |-> "arr", v |-> q]
JNull == [t |-> "null"]
\* a key the document does not have
Missing == [t |-> "missing"]
\* bytes that json.loads rejects (an empty or truncated file)
Garbage == [kind |-> "garbage"]

StateFile_NoPath(state) ==
  [kind |-> "json", pid |-> JNum(state.pid), bag_name |-> JStr(state.bag_name),
   bag_path |-> JNull, start_time |-> JNum(state.start_time),
   command |-> JArr(state.command)]
\* _write_state: the payload handed to json.dumps
StateFile(state) ==
  [kind |-> "json", pid |-> JNum(state.pid), bag_name |-> JStr(state.bag_name),
   bag_path |-> JStr(state.bag_path), start_time |-> JNum(state.start_time),
   command |-> JArr(state.command)]

Failed == [ok |-> FALSE]
Value(v) == [ok |-> TRUE, v |-> v]

\* int(x) and float(x) on a JSON value: a number, a string that spells one, or an
\* exception (the numbers of the model are naturals up to MaxLaunch + MaxTime)
ToNumber(x) ==
  CASE x.t = "num" -> Value(x.v)
    [] x.t = "str" ->
         IF \E n \in 0..(MaxLaunch + MaxTime) : ToString(n) = x.v
           THEN Value(CHOOSE n \in 0..(MaxLaunch + MaxTime) : ToString(n) = x.v)
           ELSE Failed
    [] OTHER -> Failed

\* list(x) on a JSON value: the elements of an array, or an exception (a string in
\* this position does not occur in the documents of the model)
ToList(x) ==
  CASE x.t = "arr" -> Value(x.v)
    [] x.t \in {"num", "null", "missing"} -> Failed

\* the value of bag_name or bag_path, which is neither converted nor checked: the
\* string, or NotAStr for a null, a number or an array
NotAStr == "<not a str>"
ToField(x) == IF x.t = "str" THEN x.v ELSE NotAStr

\* _read_state: the record, or None when the file is missing, is not JSON, lacks one
\* of the five keys, or holds a pid, start_time or command that does not convert
ReadState(file) ==
  CASE file.kind = "absent" -> None
    [] file.kind = "garbage" -> None
    [] file.kind = "json" ->
         IF \/ Missing \in {file.pid, file.bag_name, file.bag_path,
                            file.start_time, file.command}
            \/ ~ToNumber(file.pid).ok
            \/ ~ToNumber(file.start_time).ok
            \/ ~ToList(file.command).ok
           THEN None
           ELSE RecordingState(ToNumber(file.pid).v, ToField(file.bag_name),
                               ToField(file.bag_path), ToNumber(file.start_time).v,
                               ToList(file.command).v)

KillRaises_Never(pid) == FALSE
\* os.kill(pid, sig) raises OSError: no process has this pid
KillRaises(pid) == pid \notin DOMAIN procs \/ procs[pid] \notin {"rec", "other"}

\* _clear_state
ClearState == store' = Absent

WriteState_IfAbsent(state) == store' = IF store = Absent THEN StateFile(state) ELSE store
\* _write_state(state)
WriteState(state) == store' = StateFile(state)

(* ------------------------------ helpers ------------------------------- *)

\* f"agi_log_{timestamp}" and bag_path / bag_name (no name suffix is configured)
BagName(ts) == "agi_log_" \o ToString(ts)
FullBagPath(ts) == "bags/" \o BagName(ts)
BagPaths == { FullBagPath(ts) : ts \in 0..MaxTime }

NoFile == [kind |-> "nofile"]

\* _write_metadata: the content of state.bag_path / "metadata.txt"
Manifest(c, state) ==
  [kind |-> "manifest", bag_name |-> state.bag_name, topics |-> c.topics,
   storage |-> IF c.mcap THEN "MCAP" ELSE "default",
   compression |-> IF c.compress THEN "enabled" ELSE "disabled",
   max_bag_size |-> c.max_bag_size, duration |-> c.duration]

\* _write_metadata(state) by a controller with settings c
WriteMetadata(c, state) ==
  manifests' = [manifests EXCEPT ![state.bag_path] = Manifest(c, state)]

\* the wait loop of stop_recording runs at most this many times in the model
LoopLimit == IF MaxPolls < PollLimit THEN MaxPolls ELSE PollLimit

\* the frame of a call that has just returned rstate (result "ok", "true", "false") or
\* raised (result names the error); via is the statement it returned or raised from and
\* healed tells whether it removed a stale record, intr whether Ctrl+C was pressed in it
Done(f, result, rstate) ==
  [Frame0 EXCEPT !.pc = "done", !.op = f.op, !.fg = f.fg, !.ret = result,
                 !.rstate = rstate, !.via = f.pc, !.healed = f.healed, !.intr = f.intr]

\* the calls that have not launched their process yet but may
PendingStarts ==
  { u \in Callers : /\ th[u].op \in {"start", "on_status"}
                    /\ th[u].pc \in {"ir_read", "ir_probe", "ir_clear", "start_build",
                                     "start_run", "start_popen"}
                    /\ ~BuildFails(th[u].cfg) }

TcpOps == {"tcp_send", "tcp_receive", "tcp_run"}

(* ----------------------------- is_recording --------------------------- *)

StartAfterCheck_NoGuard(f, b) == [f EXCEPT !.pc = "start_build", !.irstate = None]
\* start_recording: if self.is_recording(): raise RuntimeError("Recording already active")
StartAfterCheck(f, b) ==
  IF b THEN Done(f, "AlreadyActive", None)
       ELSE [f EXCEPT !.pc = "start_build", !.irstate = None]

StopAfterCheck_NoBound(f, b) ==
  IF ~b THEN [f EXCEPT !.pc = "stop_meta", !.irstate = None, !.i = 0]
        ELSE [f EXCEPT !.pc = "ir_read", !.irstate = None, !.i = f.i + 1]
\* stop_recording: for _ in range(60): if not self.is_recording(): break; time.sleep(0.5)
StopAfterCheck(f, b) ==
  IF ~b \/ f.i + 1 >= LoopLimit
    THEN [f EXCEPT !.pc = "stop_meta", !.irstate = None, !.i = 0]
    ELSE [f EXCEPT !.pc = "ir_read", !.irstate = None, !.i = f.i + 1]

TcpAfterCheck_NoGate(f, b) == [f EXCEPT !.pc = "tcp_go", !.irstate = None]
\* _tcp_allowed: if manager.is_recording(): raise RuntimeError("TCP transfer disabled ...")
TcpAfterCheck(f, b) ==
  IF b THEN Done(f, "TransferDisabled", None)
       ELSE [f EXCEPT !.pc = "tcp_go", !.irstate = None]

\* where the caller of is_recording() goes on with the value b
\* the node's test on the arming state alone: a change to armed under toggle_arm, armed
\* under any other behaviour
Triggered_AnyArmed == node.msg = Armed

Triggered ==
  IF node.behavior = "toggle_arm" THEN node.msg = Armed /\ node.last # node.msg
                                  ELSE node.msg = Armed

\* the callback after its is_recording() returned b: start_recording() with its defaults
\* (attached) when no session is recorded and the arming state triggers, nothing otherwise
OnStatusAfterCheck(f, b) ==
  IF ~b /\ Triggered
    THEN [Frame0 EXCEPT !.pc = "ir_read", !.op = "start", !.fg = TRUE, !.cfg = f.cfg]
    ELSE Done(f, "skipped", None)

IrReturn(f, b) ==
  CASE f.op = "is_recording" -> Done(f, IF b THEN "true" ELSE "false", None)
    [] f.op = "on_status" -> OnStatusAfterCheck(f, b)
    [] f.op = "start" -> StartAfterCheck(f, b)
    [] f.op = "stop" -> StopAfterCheck(f, b)
    [] f.op \in TcpOps -> TcpAfterCheck(f, b)
    [] f.op = "print_status" -> Done(f, IF b THEN "active" ELSE "inactive", f.rstate)

\* a command builds its RecorderManager from the settings file and calls is_recording()
CallIsRecording(t) ==
  /\ t \in Callers /\ th[t].pc = "idle"
  /\ th' = [th EXCEPT ![t] = [Frame0 EXCEPT !.pc = "ir_read", !.op = "is_recording",
                                            !.cfg = cfg]]
  /\ UNCHANGED <<cfg, store, procs, manifests, clock, launched, timers>>
  /\ UNCHANGED <<nodeVars, xferVars>>

\* state = self._read_state(); if not state: return False
IrRead(t) ==
  /\ th[t].pc = "ir_read"
  /\ LET s == ReadState(store) IN
       th' = [th EXCEPT ![t] =
                IF s = None THEN IrReturn(th[t], FALSE)
                            ELSE [th[t] EXCEPT !.pc = "ir_probe", !.irstate = s]]
  /\ UNCHANGED <<cfg, store, procs, manifests, clock, launched, timers>>
  /\ UNCHANGED <<nodeVars, xferVars>>

\* os.kill(state.pid, 0): return True unless it raises OSError
IrProbe(t) ==
  /\ th[t].pc = "ir_probe"
  /\ th' = [th EXCEPT ![t] =
              IF KillRaises(th[t].irstate.pid)
                THEN [th[t] EXCEPT !.pc = "ir_clear"]
                ELSE IrReturn(th[t], TRUE)]
  /\ UNCHANGED <<cfg, store, procs, manifests, clock, launched, timers>>
  /\ UNCHANGED <<nodeVars, xferVars>>

\* except OSError: self._clear_state(); return False
IrClear(t) ==
  /\ th[t].pc = "ir_clear"
  /\ ClearState
  /\ th' = [th EXCEPT ![t] = IrReturn([th[t] EXCEPT !.healed = TRUE], FALSE)]
  /\ UNCHANGED <<cfg, procs, manifests, clock, launched, timers>>
  /\ UNCHANGED <<nodeVars, xferVars>>

(* ----------------------------- start_recording ------------------------ *)

\* a command builds its RecorderManager and calls start_recording(foreground = fg)
CallStart(t, fg) ==
  /\ t \in Callers /\ th[t].pc = "idle"
  /\ BuildFails(cfg) \/ launched + Cardinality(PendingStarts) < MaxLaunch
  /\ th' = [th EXCEPT ![t] = [Frame0 EXCEPT !.pc = "ir_read", !.op = "start", !.fg = fg,
                                            !.cfg = cfg]]
  /\ UNCHANGED <<cfg, store, procs, manifests, clock, launched, timers>>
  /\ UNCHANGED <<nodeVars, xferVars>>

\* the session name from the clock, then cmd = self._build_command(str(full_bag_path))
StartBuild(t) ==
  /\ th[t].pc = "start_build"
  /\ th' = [th EXCEPT ![t] =
              IF BuildFails(th[t].cfg)
                THEN Done(th[t], "ConfigurationError", None)
                ELSE [th[t] EXCEPT
                        !.pc = IF th[t].fg THEN "start_run" ELSE "start_popen",
                        !.state = RecordingState(0, BagName(clock), FullBagPath(clock), 0,
                                    BuildCommand(th[t].cfg, FullBagPath(clock)))]]
  /\ UNCHANGED <<cfg, store, procs, manifests, clock, launched, timers>>
  /\ UNCHANGED <<nodeVars, xferVars>>

StartRun_Persists(t) ==
  /\ th[t].pc = "start_run"
  /\ launched' = launched + 1
  /\ procs' = [procs EXCEPT ![launched + 1] = "rec"]
  /\ store' = StateFile([th[t].state EXCEPT !.pid = launched + 1])
  /\ th' = [th EXCEPT ![t] = [th[t] EXCEPT !.pc = "start_wait", !.proc = launched + 1,
                                           !.state.start_time = clock]]
  /\ UNCHANGED <<cfg, manifests, clock, timers>>
  /\ UNCHANGED <<nodeVars, xferVars>>

\* foreground: state with pid 0, then subprocess.run(cmd) launches the recorder
StartRun(t) ==
  /\ th[t].pc = "start_run"
  /\ launched' = launched + 1
  /\ procs' = [procs EXCEPT ![launched + 1] = "rec"]
  /\ th' = [th EXCEPT ![t] = [th[t] EXCEPT !.pc = "start_wait", !.proc = launched + 1,
                                           !.state.start_time = clock]]
  /\ UNCHANGED <<cfg, store, manifests, clock, timers>>
  /\ UNCHANGED <<nodeVars, xferVars>>

\* subprocess.run returns: the recorder has exited
StartWait(t) ==
  /\ th[t].pc = "start_wait"
  /\ procs[th[t].proc] = "gone"
  /\ th' = [th EXCEPT ![t] = [th[t] EXCEPT !.pc = "start_meta"]]
  /\ UNCHANGED <<cfg, store, procs, manifests, clock, launched, timers>>
  /\ UNCHANGED <<nodeVars, xferVars>>

\* KeyboardInterrupt while waiting: subprocess.run kills the child, the except passes
StartInterrupt(t) ==
  /\ th[t].pc = "start_wait"
  /\ procs[th[t].proc] = "rec"
  /\ procs' = [procs EXCEPT ![th[t].proc] = "gone"]
  /\ th' = [th EXCEPT ![t] = [th[t] EXCEPT !.pc = "start_meta", !.intr = TRUE]]
  /\ UNCHANGED <<cfg, store, manifests, clock, launched, timers>>
  /\ UNCHANGED <<nodeVars, xferVars>>

\* self._write_metadata(state); return state
StartMeta(t) ==
  /\ th[t].pc = "start_meta"
  /\ WriteMetadata(th[t].cfg, th[t].state)
  /\ th' = [th EXCEPT ![t] = Done(th[t], "ok", th[t].state)]
  /\ UNCHANGED <<cfg, store, procs, clock, launched, timers>>
  /\ UNCHANGED <<nodeVars, xferVars>>

\* detached: process = subprocess.Popen(cmd); state = RecordingState(pid = process.pid, ...)
StartPopen(t) ==
  /\ th[t].pc = "start_popen"
  /\ launched' = launched + 1
  /\ procs' = [procs EXCEPT ![launched + 1] = "rec"]
  /\ th' = [th EXCEPT ![t] = [th[t] EXCEPT !.pc = "start_write", !.proc = launched + 1,
                                           !.state.pid = launched + 1,
                                           !.state.start_time = clock]]
  /\ UNCHANGED <<cfg, store, manifests, clock, timers>>
  /\ UNCHANGED <<nodeVars, xferVars>>

\* self._write_state(state)
StartWrite(t) ==
  /\ th[t].pc = "start_write"
  /\ WriteState(th[t].state)
  /\ th' = [th EXCEPT ![t] = [th[t] EXCEPT !.pc = "start_poll"]]
  /\ UNCHANGED <<cfg, procs, manifests, clock, launched, timers>>
  /\ UNCHANGED <<nodeVars, xferVars>>

\* after the grace sleep: process.poll(); if the recorder runs, the timer is started
\* when duration_min > 0 and state is returned
StartPoll(t) ==
  /\ th[t].pc = "start_poll"
  /\ IF procs[th[t].proc] # "rec"
       THEN /\ th' = [th EXCEPT ![t] = [th[t] EXCEPT !.pc = "start_clear"]]
            /\ UNCHANGED timers
       ELSE /\ th' = [th EXCEPT ![t] = Done(th[t], "ok", th[t].state)]
            /\ timers' = IF th[t].cfg.duration > 0
                           THEN [timers EXCEPT ![th[t].proc] = PendingTimer(th[t].cfg)]
                           ELSE timers
  /\ UNCHANGED <<cfg, store, procs, manifests, clock, launched>>
  /\ UNCHANGED <<nodeVars, xferVars>>

StartClear_KeepsRecord(t) ==
  /\ th[t].pc = "start_clear"
  /\ th' = [th EXCEPT ![t] = Done(th[t], "LaunchFailed", None)]
  /\ UNCHANGED <<cfg, store, procs, manifests, clock, launched, timers>>
  /\ UNCHANGED <<nodeVars, xferVars>>

\* the recorder exited early: self._clear_state(); raise RuntimeError
StartClear(t) ==
  /\ th[t].pc = "start_clear"
  /\ ClearState
  /\ th' = [th EXCEPT ![t] = Done(th[t], "LaunchFailed", None)]
  /\ UNCHANGED <<cfg, procs, manifests, clock, launched, timers>>
  /\ UNCHANGED <<nodeVars, xferVars>>

(* ----------------------------- stop_recording ------------------------- *)

\* a command builds its RecorderManager and calls stop_recording()
CallStop(t) ==
  /\ t \in Callers /\ th[t].pc = "idle"
  /\ th' = [th EXCEPT ![t] = [Frame0 EXCEPT !.pc = "stop_read", !.op = "stop",
                                            !.cfg = cfg]]
  /\ UNCHANGED <<cfg, store, procs, manifests, clock, launched, timers>>
  /\ UNCHANGED <<nodeVars, xferVars>>

\* the threading.Timer of launch n fires and runs self.stop_recording in its own thread
TimerFire(n) ==
  /\ n \in Launches /\ timers[n].st = "pending"
  /\ timers' = [timers EXCEPT ![n] = FiredTimer]
  /\ th' = [th EXCEPT ![n] = [Frame0 EXCEPT !.pc = "stop_read", !.op = "stop",
                                            !.cfg = timers[n].cfg]]
  /\ UNCHANGED <<cfg, store, procs, manifests, clock, launched>>
  /\ UNCHANGED <<nodeVars, xferVars>>

StopRead_NoRaise(t) ==
  /\ th[t].pc = "stop_read"
  /\ LET s == ReadState(store) IN
       th' = [th EXCEPT ![t] =
                IF s = None THEN Done(th[t], "ok", None)
                            ELSE [th[t] EXCEPT !.pc = "stop_kill", !.state = s]]
  /\ UNCHANGED <<cfg, store, procs, manifests, clock, launched, timers>>
  /\ UNCHANGED <<nodeVars, xferVars>>

\* state = self._read_state(); if not state: raise RuntimeError("No active recording found")
StopRead(t) ==
  /\ th[t].pc = "stop_read"
  /\ LET s == ReadState(store) IN
       th' = [th EXCEPT ![t] =
                IF s = None THEN Done(th[t], "NoActiveSession", None)
                            ELSE [th[t] EXCEPT !.pc = "stop_kill", !.state = s]]
  /\ UNCHANGED <<cfg, store, procs, manifests, clock, launched, timers>>
  /\ UNCHANGED <<nodeVars, xferVars>>

\* os.kill(state.pid, signal.SIGINT): delivered, or OSError
StopKill(t) ==
  /\ th[t].pc = "stop_kill"
  /\ th' = [th EXCEPT ![t] =
              IF KillRaises(th[t].state.pid)
                THEN [th[t] EXCEPT !.pc = "stop_clear_dead"]
                ELSE [th[t] EXCEPT !.pc = "ir_read", !.i = 0]]
  /\ UNCHANGED <<cfg, store, procs, manifests, clock, launched, timers>>
  /\ UNCHANGED <<nodeVars, xferVars>>

StopClearDead_Raises(t) ==
  /\ th[t].pc = "stop_clear_dead"
  /\ th' = [th EXCEPT ![t] = Done(th[t], "NoActiveSession", None)]
  /\ UNCHANGED <<cfg, store, procs, manifests, clock, launched, timers>>
  /\ UNCHANGED <<nodeVars, xferVars>>

\* except OSError: self._clear_state(); return
StopClearDead(t) ==
  /\ th[t].pc = "stop_clear_dead"
  /\ ClearState
  /\ th' = [th EXCEPT ![t] = Done(th[t], "ok", None)]
  /\ UNCHANGED <<cfg, procs, manifests, clock, launched, timers>>
  /\ UNCHANGED <<nodeVars, xferVars>>

\* after the wait loop: self._write_metadata(state)
\* (Path(state.bag_path) raises TypeError when bag_path is not a string)
StopMeta(t) ==
  /\ th[t].pc = "stop_meta"
  /\ IF th[t].state.bag_path = NotAStr
       THEN /\ th' = [th EXCEPT ![t] = Done(th[t], "TypeError", None)]
            /\ UNCHANGED manifests
       ELSE /\ WriteMetadata(th[t].cfg, th[t].state)
            /\ th' = [th EXCEPT ![t] = [th[t] EXCEPT !.pc = "stop_clear"]]
  /\ UNCHANGED <<cfg, store, procs, clock, launched, timers>>
  /\ UNCHANGED <<nodeVars, xferVars>>

\* self._clear_state(), and stop_recording returns
StopClear(t) ==
  /\ th[t].pc = "stop_clear"
  /\ ClearState
  /\ th' = [th EXCEPT ![t] = Done(th[t], "ok", None)]
  /\ UNCHANGED <<cfg, procs, manifests, clock, launched, timers>>
  /\ UNCHANGED <<nodeVars, xferVars>>

(* -------------------------------- status ------------------------------ *)

Status_Heals(t) ==
  /\ t \in Callers /\ th[t].pc = "idle"
  /\ th' = [th EXCEPT ![t] = Done([Frame0 EXCEPT !.op = "status"], "ok", ReadState(store))]
  /\ store' = IF ReadState(store) # None /\ KillRaises(ReadState(store).pid)
                THEN Absent ELSE store
  /\ UNCHANGED <<cfg, procs, manifests, clock, launched, timers>>
  /\ UNCHANGED <<nodeVars, xferVars>>

\* status(): return self._read_state()
Status(t) ==
  /\ t \in Callers /\ th[t].pc = "idle"
  /\ th' = [th EXCEPT ![t] = Done([Frame0 EXCEPT !.op = "status"], "ok", ReadState(store))]
  /\ UNCHANGED <<cfg, store, procs, manifests, clock, launched, timers>>
  /\ UNCHANGED <<nodeVars, xferVars>>

\* record status: _print_status(manager): state = manager.status(); without a state
\* it prints "Recording inactive" and returns 1, with one manager.is_recording() decides
CallPrintStatus(t) ==
  /\ t \in Callers /\ th[t].pc = "idle"
  /\ LET f == [Frame0 EXCEPT !.op = "print_status", !.cfg = cfg,
                             !.rstate = ReadState(store)] IN
       th' = [th EXCEPT ![t] = IF f.rstate = None THEN Done(f, "inactive", None)
                                                  ELSE [f EXCEPT !.pc = "ir_read"]]
  /\ UNCHANGED <<cfg, store, procs, manifests, clock, launched, timers>>
  /\ UNCHANGED <<nodeVars, xferVars>>

(* ------------------------- the gate of the transfers ------------------ *)

\* tcp send | receive | run: manager = _get_manager(args.config); _tcp_allowed(manager).
\* mode is the configured (or asked) mode that tcp run goes by.
CallTcp(t, cmd, mode) ==
  /\ t \in Callers /\ th[t].pc = "idle"
  /\ cmd \in TcpOps
  /\ mode \in IF cmd = "tcp_run" THEN {"server", "client", "ask"} ELSE {"none"}
  /\ th' = [th EXCEPT ![t] = [Frame0 EXCEPT !.pc = "ir_read", !.op = cmd, !.mode = mode,
                                            !.cfg = cfg]]
  /\ UNCHANGED <<cfg, store, procs, manifests, clock, launched, timers>>
  /\ UNCHANGED <<nodeVars, xferVars>>

\* _tcp_run past its gate: _tcp_send(args) or _tcp_receive(args), each with its own
\* manager and gate, or RuntimeError("Unsupported tcp mode")
TcpRunDispatch(t) ==
  /\ th[t].pc = "tcp_go" /\ th[t].op = "tcp_run"
  /\ th' = [th EXCEPT ![t] =
              CASE th[t].mode = "server" ->
                     [th[t] EXCEPT !.pc = "ir_read", !.op = "tcp_send", !.cfg = cfg]
                [] th[t].mode = "client" ->
                     [th[t] EXCEPT !.pc = "ir_read", !.op = "tcp_receive", !.cfg = cfg]
                [] OTHER -> Done(th[t], "UnsupportedMode", None)]
  /\ UNCHANGED <<cfg, store, procs, manifests, clock, launched, timers>>
  /\ UNCHANGED <<nodeVars, xferVars>>

\* _tcp_send past its gate: no file path, or send_file: the file is missing
\* (TcpTransferError) or the socket is created, bound and listening
TcpSendOpen(t, found) ==
  /\ th[t].pc = "tcp_go" /\ th[t].op = "tcp_send"
  /\ found \in {"nopath", "nofile", "file"}
  /\ th' = [th EXCEPT ![t] =
              CASE found = "nopath" -> Done(th[t], "FilePathRequired", None)
                [] found = "nofile" -> Done(th[t], "TransferError", None)
                [] OTHER -> [th[t] EXCEPT !.pc = "tcp_open"]]
  /\ UNCHANGED <<cfg, store, procs, manifests, clock, launched, timers>>
  /\ UNCHANGED <<nodeVars, xferVars>>

\* _tcp_receive past its gate: receive_file creates its socket and connects
TcpReceiveOpen(t) ==
  /\ th[t].pc = "tcp_go" /\ th[t].op = "tcp_receive"
  /\ th' = [th EXCEPT ![t] = [th[t] EXCEPT !.pc = "tcp_open"]]
  /\ UNCHANGED <<cfg, store, procs, manifests, clock, launched, timers>>
  /\ UNCHANGED <<nodeVars, xferVars>>

\* the transfer ends: receive_file returns or raises, the sender is interrupted
TcpClose(t, result) ==
  /\ th[t].pc = "tcp_open"
  /\ result \in IF th[t].op = "tcp_send" THEN {"Interrupted"} ELSE {"ok", "TransferError"}
  /\ th' = [th EXCEPT ![t] = Done([th[t] EXCEPT !.intr = (result = "Interrupted")],
                                   result, None)]
  /\ UNCHANGED <<cfg, store, procs, manifests, clock, launched, timers>>
  /\ UNCHANGED <<nodeVars, xferVars>>

\* the command has reported its result and exits; the timer's thread ends
\* _on_vehicle_status(msg) up to its call of is_recording(): nothing at all when auto-start
\* is off; under toggle_arm the first message is only remembered and every later one asks
\* is_recording() first; under any other behaviour only an armed message asks it
OnVehicleStatus(m) ==
  /\ th[NodeThread].pc = "idle" /\ node.msg = NoMsg
  /\ launched + Cardinality(PendingStarts) < MaxLaunch
  /\ IF ~node.auto
       THEN UNCHANGED <<node, th>>
       ELSE IF (node.behavior = "toggle_arm" /\ node.last = Unset)
                 \/ (node.behavior # "toggle_arm" /\ m # Armed)
              THEN /\ node' = [node EXCEPT !.last = m]
                   /\ UNCHANGED th
              ELSE /\ node' = [node EXCEPT !.msg = m]
                   /\ th' = [th EXCEPT ![NodeThread] =
                               [Frame0 EXCEPT !.pc = "ir_read", !.op = "on_status",
                                              !.cfg = cfg]]
  /\ UNCHANGED <<cfg, store, procs, manifests, clock, launched, timers>>
  /\ UNCHANGED xferVars

\* the end of the callback: whatever start_recording() returned or raised, the arming
\* state of the message is remembered
NodeFinish ==
  /\ th[NodeThread].pc = "done" /\ node.msg # NoMsg
  /\ node' = [node EXCEPT !.last = node.msg, !.msg = NoMsg]
  /\ th' = [th EXCEPT ![NodeThread] = Frame0]
  /\ UNCHANGED <<cfg, store, procs, manifests, clock, launched, timers>>
  /\ UNCHANGED xferVars

Return(t) ==
  /\ th[t].pc = "done"
  /\ th' = [th EXCEPT ![t] = Frame0]
  /\ UNCHANGED <<cfg, store, procs, manifests, clock, launched, timers>>
  /\ UNCHANGED <<nodeVars, xferVars>>

(* ------------------------------- cli.main ----------------------------- *)

\* the results that are a RuntimeError (TcpTransferError is one) or a ConfigError
HandledErrors ==
  {"ConfigurationError", "AlreadyActive", "LaunchFailed", "NoActiveSession",
   "TransferDisabled", "TransferError", "UnsupportedMode", "FilePathRequired"}

ExitCode_StatusZero(op, ret) ==
  CASE ret = "Interrupted" -> 130
    [] ret \in HandledErrors -> 1
    [] OTHER -> IF ret \in {"ok", "active", "inactive"} THEN 0 ELSE 1
\* main: exit_code = args.func(args), 1 on ConfigError or RuntimeError, 130 on
\* KeyboardInterrupt; _record_start, _record_stop and the tcp commands return 0,
\* _print_status returns 0 for an active session and 1 otherwise; any other exception
\* is not caught and ends the interpreter with status 1
ExitCode(op, ret) ==
  CASE ret = "Interrupted" -> 130
    [] ret \in HandledErrors -> 1
    [] ret = "ok" /\ op # "print_status" -> 0
    [] ret = "active" /\ op = "print_status" -> 0
    [] ret = "inactive" /\ op = "print_status" -> 1
    [] OTHER -> 1

\* Ctrl+C while a command runs: KeyboardInterrupt is raised in the main thread and
\* nothing catches it before main (inside subprocess.run start_recording catches it:
\* StartInterrupt)
Interrupt(t) ==
  /\ t \in Callers /\ th[t].pc \notin {"idle", "done", "start_wait"}
  /\ th' = [th EXCEPT ![t] = Done([th[t] EXCEPT !.intr = TRUE], "Interrupted", None)]
  /\ UNCHANGED <<cfg, store, procs, manifests, clock, launched, timers>>
  /\ UNCHANGED <<nodeVars, xferVars>>

(* ----------------------------- environment ---------------------------- *)

\* a recorder process leaves the process table (exit after SIGINT, crash, kill -9)
ProcExit(n) ==
  /\ n \in Launches /\ procs[n] = "rec"
  /\ procs' = [procs EXCEPT ![n] = "gone"]
  /\ UNCHANGED <<cfg, store, manifests, clock, launched, timers, th>>
  /\ UNCHANGED <<nodeVars, xferVars>>

\* the operating system gives the pid of a recorder that has exited to a new process
\* that is no recorder
PidReuse(n) ==
  /\ n \in Launches /\ procs[n] = "gone"
  /\ procs' = [procs EXCEPT ![n] = "other"]
  /\ UNCHANGED <<cfg, store, manifests, clock, launched, timers, th>>
  /\ UNCHANGED <<nodeVars, xferVars>>

\* a second passes
Tick ==
  /\ clock < MaxTime
  /\ clock' = clock + 1
  /\ UNCHANGED <<cfg, store, procs, manifests, launched, timers, th>>
  /\ UNCHANGED <<nodeVars, xferVars>>

\* the settings menu saves the settings file
Reconfigure(c) ==
  /\ c \in CtlConfigs /\ c # cfg
  /\ cfg' = c
  /\ UNCHANGED <<store, procs, manifests, clock, launched, timers, th>>
  /\ UNCHANGED <<nodeVars, xferVars>>

\* a timer that was scheduled and died with its program before it fired
LostTimer == [st |-> "lost"]

\* the program whose thread t made the detached starts exits between two calls
\* (main: raise SystemExit(exit_code)).  Its timers are daemon threads
\* (timer.daemon = True): a pending one never fires and a running one is stopped
\* wherever it is.
ProgramExit(t) ==
  /\ t \in Callers /\ th[t].pc = "idle"
  /\ \E n \in Launches : timers[n].st = "pending" \/ th[n].pc # "idle"
  /\ timers' = [n \in Launches |->
                  IF timers[n].st = "pending" THEN LostTimer ELSE timers[n]]
  /\ th' = [u \in Threads |-> IF u \in Launches THEN Frame0 ELSE th[u]]
  /\ UNCHANGED <<cfg, store, procs, manifests, clock, launched>>
  /\ UNCHANGED <<nodeVars, xferVars>>

\* the ways the content of STATE_FILE gets damaged from outside the controller
DamageKinds == {"truncated", "nokey", "badpid", "nullpath"}

\* the record in STATE_FILE is damaged: cut short, one key lost, the pid no number, or
\* the bag path null
Damage(d) ==
  /\ d \in DamageKinds /\ store.kind = "json"
  /\ store' = CASE d = "truncated" -> Garbage
                [] d = "nokey" -> [store EXCEPT !.command = Missing]
                [] d = "badpid" -> [store EXCEPT !.pid = JStr("x")]
                [] d = "nullpath" -> [store EXCEPT !.bag_path = JNull]
  /\ store' # store
  /\ UNCHANGED <<cfg, procs, manifests, clock, launched, timers, th>>
  /\ UNCHANGED <<nodeVars, xferVars>>

(* ------------------ transfer protocol (tcp_transfer.py) ---------------- *)

\* longest source file in bytes; sizes of two decimal digits occur
MaxFileLen == 11
\* chunk size of the model
MaxChunk == 2
\* bytes a connection buffers before sendall blocks
MaxBuffered == 3
\* receive_file calls in one behaviour, one after another
MaxConns == 2

\* tcp_transfer.py: BUFFER_SIZE = 1024 * 32
BUFFER_SIZE == 32768

\* the chunk size in force: BUFFER_SIZE, cut down to the model's bound
ChunkSize == IF MaxChunk < BUFFER_SIZE THEN MaxChunk ELSE BUFFER_SIZE

\* Text is a sequence of one-character strings; a payload byte is one of "x", "y", "z".
Digits == <<"0", "1", "2", "3", "4", "5", "6", "7", "8", "9">>

RECURSIVE Str(_)
\* str(n) of a non-negative integer
Str(n) == IF n < 10 THEN <<Digits[n + 1]>>
                    ELSE Str(n \div 10) \o <<Digits[(n % 10) + 1]>>

\* the metadata declares no bytes
FormatMetadata_NoSize(name, size) == name \o <<":">> \o Str(0)

\* f"{file_path.name}:{file_size}"
FormatMetadata(name, size) == name \o <<":">> \o Str(size)

\* s.startswith(prefix)
StartsWith(s, prefix) ==
  Len(s) >= Len(prefix) /\ SubSeq(s, 1, Len(prefix)) = prefix

RECURSIVE Split(_, _)
\* s.split(sep) for a one-character separator
Split(s, sep) ==
  IF \E i \in 1..Len(s) : s[i] = sep
  THEN LET i == CHOOSE k \in 1..Len(s) :
                  s[k] = sep /\ \A j \in 1..(k - 1) : s[j] # sep
       IN  <<SubSeq(s, 1, i - 1)>> \o Split(SubSeq(s, i + 1, Len(s)), sep)
  ELSE <<s>>

\* int(s) succeeds; the texts of the model hold no sign, blank or underscore
IsInt(s) == s # <<>> /\ \A i \in 1..Len(s) : \E d \in 1..10 : Digits[d] = s[i]

RECURSIVE ParseInt(_)
\* int(s) of a text of decimal digits
ParseInt(s) ==
  LET last == (CHOOSE d \in 1..10 : Digits[d] = s[Len(s)]) - 1
  IN  IF Len(s) = 1 THEN last ELSE 10 * ParseInt(SubSeq(s, 1, Len(s) - 1)) + last

ERROR == <<"E", "R", "R", "O", "R">>
READY == <<"R", "E", "A", "D", "Y">>

\* receive_file, lines 66-69: what becomes of the metadata text
ParseMetadata(metadata) ==
  LET parts == Split(metadata, ":") IN
  IF StartsWith(metadata, ERROR)
  THEN [result |-> "TransferError", name |-> <<>>, size |-> 0]
  ELSE IF Len(parts) # 2 \/ ~IsInt(parts[2])
  THEN [result |-> "ValueError", name |-> <<>>, size |-> 0]
  ELSE [result |-> "ok", name |-> parts[1], size |-> ParseInt(parts[2])]

\* names of the source file
FileNames == { <<"a">>, <<"a", ":", "b">>, ERROR \o <<"S">> }

\* the content of a source file of n bytes
SourceData(n) == [i \in 1..n |-> <<"x", "y", "z">>[(i % 3) + 1]]

File(data) == [kind |-> "file", data |-> data]

Min(a, b) == IF a < b THEN a ELSE b

\* the sender before send_file is called
Snd0 == [pc |-> "idle", size |-> 0, handle |-> <<>>, pos |-> 0, out |-> <<>>,
         ret |-> "none", via |-> "none"]

\* the receiver outside receive_file
Rcv0 == [pc |-> "idle", name |-> <<>>, size |-> 0, received |-> 0, ret |-> "none"]

\* net.listening: the sender's socket listens; net.backlog: the receiver's connection
\* waits to be accepted; net.link: the connection the sender serves is the receiver's;
\* net.s2c, net.c2s: bytes in flight on the served connection; net.sclosed,
\* net.rclosed: the sender's and the receiver's end of it are closed.
Net0 == [listening |-> FALSE, backlog |-> FALSE, link |-> FALSE,
         s2c |-> <<>>, c2s |-> <<>>, sclosed |-> FALSE, rclosed |-> FALSE]

\* send_file ends by an exception: both of its sockets are closed on the way out
SndRaise(error) ==
  /\ snd' = [Snd0 EXCEPT !.pc = "dead", !.ret = error, !.via = snd.pc]
  /\ net' = [net EXCEPT !.listening = FALSE, !.sclosed = TRUE]

\* receive_file ends, by return or by exception: its socket is closed on the way out
RcvEnd(result) ==
  /\ rcv' = [rcv EXCEPT !.pc = "done", !.ret = result]
  /\ net' = IF net.link THEN [net EXCEPT !.rclosed = TRUE]
                        ELSE [net EXCEPT !.backlog = FALSE]

\* send_file is called
SndCall ==
  /\ snd.pc = "idle"
  /\ snd' = [snd EXCEPT !.pc = "check"]
  /\ UNCHANGED <<path, src, touched, rcv, net, dest, conns>>
  /\ UNCHANGED ctlVars

\* lines 31-33: the one check that the file exists, before any socket
SndCheck ==
  /\ snd.pc = "check"
  /\ snd' = IF src = NoFile
            THEN [Snd0 EXCEPT !.pc = "dead", !.ret = "TransferError", !.via = "check"]
            ELSE [snd EXCEPT !.pc = "bind"]
  /\ UNCHANGED <<path, src, touched, rcv, net, dest, conns>>
  /\ UNCHANGED ctlVars

\* lines 35-37: bind and listen
SndListen ==
  /\ snd.pc = "bind"
  /\ net' = [net EXCEPT !.listening = TRUE]
  /\ snd' = [snd EXCEPT !.pc = "accept"]
  /\ UNCHANGED <<path, src, touched, rcv, dest, conns>>
  /\ UNCHANGED ctlVars

\* line 41: accept blocks until a connection waits
SndAccept ==
  /\ snd.pc = "accept"
  /\ net.backlog
  /\ net' = [Net0 EXCEPT !.listening = TRUE, !.link = TRUE]
  /\ snd' = [snd EXCEPT !.pc = "stat"]
  /\ UNCHANGED <<path, src, touched, rcv, dest, conns>>
  /\ UNCHANGED ctlVars

\* lines 44-46: the size is read from the file system and the metadata sent;
\* stat() raises FileNotFoundError when the file is gone
SndMeta ==
  /\ snd.pc = "stat"
  /\ IF src = NoFile
     THEN SndRaise("FileNotFoundError")
     ELSE /\ snd' = [snd EXCEPT !.pc = "recv_ack", !.size = Len(src.data)]
          /\ net' = [net EXCEPT !.s2c = @ \o FormatMetadata(path, Len(src.data))]
  /\ UNCHANGED <<path, src, touched, rcv, dest, conns>>
  /\ UNCHANGED ctlVars

SndAck_KeepsOpen ==
  /\ snd.pc = "recv_ack"
  /\ net.c2s # <<>> \/ net.rclosed
  /\ IF net.c2s = READY
       THEN /\ snd' = [snd EXCEPT !.pc = "open"]
            /\ net' = [net EXCEPT !.c2s = <<>>]
       ELSE /\ snd' = [snd EXCEPT !.pc = "accept"]
            /\ net' = [net EXCEPT !.c2s = <<>>]
  /\ UNCHANGED <<path, src, touched, rcv, dest, conns>>
  /\ UNCHANGED ctlVars

\* a byte that no UTF-8 text contains
BadByte == "0xFF"
\* bytes.decode() returns the text: no byte of it is invalid
Decodes(bytes) == \A i \in 1..Len(bytes) : bytes[i] # BadByte

\* lines 48-51: recv blocks until bytes arrive or the peer closes; decode() raises
\* UnicodeDecodeError on bytes that are no text; any text but READY closes the
\* connection and goes back to accept
SndAck ==
  /\ snd.pc = "recv_ack"
  /\ net.c2s # <<>> \/ net.rclosed
  /\ CASE ~Decodes(net.c2s) -> SndRaise("UnicodeDecodeError")
       [] Decodes(net.c2s) /\ net.c2s = READY ->
            /\ snd' = [snd EXCEPT !.pc = "open"]
            /\ net' = [net EXCEPT !.c2s = <<>>]
       [] OTHER ->
            /\ snd' = [snd EXCEPT !.pc = "accept"]
            /\ net' = [net EXCEPT !.c2s = <<>>, !.sclosed = TRUE]
  /\ UNCHANGED <<path, src, touched, rcv, dest, conns>>
  /\ UNCHANGED ctlVars

\* line 53: open the file for reading
SndOpen ==
  /\ snd.pc = "open"
  /\ IF src = NoFile
     THEN SndRaise("FileNotFoundError")
     ELSE /\ snd' = [snd EXCEPT !.pc = "read", !.handle = src.data, !.pos = 0]
          /\ net' = net
  /\ UNCHANGED <<path, src, touched, rcv, dest, conns>>
  /\ UNCHANGED ctlVars

\* line 54: read the next chunk; an empty chunk ends the loop and the connection
SndRead ==
  /\ snd.pc = "read"
  /\ LET chunk == SubSeq(snd.handle, snd.pos + 1,
                         Min(snd.pos + ChunkSize, Len(snd.handle))) IN
     IF chunk = <<>>
     THEN /\ snd' = [snd EXCEPT !.pc = "accept", !.handle = <<>>, !.pos = 0]
          /\ net' = [net EXCEPT !.sclosed = TRUE]
     ELSE /\ snd' = [snd EXCEPT !.pc = "sendall", !.out = chunk,
                                !.pos = @ + Len(chunk)]
          /\ net' = net
  /\ UNCHANGED <<path, src, touched, rcv, dest, conns>>
  /\ UNCHANGED ctlVars

\* line 55: sendall hands the chunk to the connection as room allows and returns when
\* all of it is handed over; on a connection the peer has closed the bytes are
\* dropped or the call raises
SndSendall ==
  /\ snd.pc = "sendall"
  /\ \E outcome \in IF net.rclosed THEN {"dropped", "raised"} ELSE {"sent"} :
       CASE outcome = "raised" -> SndRaise("BrokenPipeError")
         [] outcome = "dropped" ->
              /\ snd' = [snd EXCEPT !.pc = "read", !.out = <<>>]
              /\ net' = net
         [] OTHER ->
              LET k == Min(Len(snd.out), MaxBuffered - Len(net.s2c)) IN
              /\ k > 0
              /\ net' = [net EXCEPT !.s2c = @ \o SubSeq(snd.out, 1, k)]
              /\ snd' = [snd EXCEPT !.out = SubSeq(@, k + 1, Len(@)),
                                    !.pc = IF k = Len(snd.out) THEN "read"
                                                               ELSE "sendall"]
  /\ UNCHANGED <<path, src, touched, rcv, dest, conns>>
  /\ UNCHANGED ctlVars

\* one step of send_file
SndStep ==
  \/ SndCheck \/ SndListen \/ SndAccept \/ SndMeta \/ SndAck \/ SndOpen
  \/ SndRead \/ SndSendall

\* receive_file is called
RcvCall ==
  /\ rcv.pc = "idle"
  /\ conns < MaxConns
  /\ rcv' = [Rcv0 EXCEPT !.pc = "connect"]
  /\ conns' = conns + 1
  /\ UNCHANGED <<path, src, touched, snd, net, dest>>
  /\ UNCHANGED ctlVars

\* line 64: connect succeeds when a socket listens, and is refused otherwise
RcvConnect ==
  /\ rcv.pc = "connect"
  /\ IF net.listening
     THEN /\ rcv' = [rcv EXCEPT !.pc = "recv_meta"]
          /\ net' = [net EXCEPT !.backlog = TRUE, !.link = FALSE]
     ELSE /\ rcv' = [rcv EXCEPT !.pc = "done", !.ret = "ConnectionRefusedError"]
          /\ net' = [net EXCEPT !.link = FALSE]
  /\ UNCHANGED <<path, src, touched, snd, dest, conns>>
  /\ UNCHANGED ctlVars

\* lines 65-69: recv blocks until bytes arrive or the peer closes, and returns what
\* has arrived; a connection never accepted is reset when the listening socket closes
RcvMeta ==
  /\ rcv.pc = "recv_meta"
  /\ IF net.link
     THEN /\ net.s2c # <<>> \/ net.sclosed
          /\ LET m == ParseMetadata(net.s2c) IN
             IF m.result = "ok"
             THEN /\ rcv' = [rcv EXCEPT !.pc = "send_ready", !.name = m.name,
                                        !.size = m.size]
                  /\ net' = [net EXCEPT !.s2c = <<>>]
             ELSE /\ rcv' = [rcv EXCEPT !.pc = "done", !.ret = m.result]
                  /\ net' = [net EXCEPT !.s2c = <<>>, !.rclosed = TRUE]
     ELSE /\ ~net.listening
          /\ RcvEnd("ConnectionResetError")
  /\ UNCHANGED <<path, src, touched, snd, dest, conns>>
  /\ UNCHANGED ctlVars

\* line 70: send READY
RcvReady ==
  /\ rcv.pc = "send_ready"
  /\ net' = [net EXCEPT !.c2s = @ \o READY]
  /\ rcv' = [rcv EXCEPT !.pc = "open_out"]
  /\ UNCHANGED <<path, src, touched, snd, dest, conns>>
  /\ UNCHANGED ctlVars

\* lines 72-74: the destination file is created, or emptied
RcvOpen ==
  /\ rcv.pc = "open_out"
  /\ dest' = [kind |-> "file", name |-> rcv.name, data |-> <<>>]
  /\ rcv' = [rcv EXCEPT !.pc = "loop", !.received = 0]
  /\ UNCHANGED <<path, src, touched, snd, net, conns>>
  /\ UNCHANGED ctlVars

RcvChunk_EarlyCloseRaises ==
  /\ rcv.pc = "loop"
  /\ rcv.received < rcv.size
  /\ net.s2c # <<>> \/ net.sclosed
  /\ IF net.s2c = <<>>
     THEN /\ RcvEnd("TransferError")
          /\ UNCHANGED dest
     ELSE \E k \in 1..Min(Len(net.s2c), ChunkSize) :
            /\ dest' = [dest EXCEPT !.data = @ \o SubSeq(net.s2c, 1, k)]
            /\ net' = [net EXCEPT !.s2c = SubSeq(@, k + 1, Len(@))]
            /\ rcv' = [rcv EXCEPT !.received = @ + k]
  /\ UNCHANGED <<path, src, touched, snd, conns>>
  /\ UNCHANGED ctlVars

\* lines 75-80: while received < file_size, recv returns between one byte and a
\* chunk of what has arrived, or nothing once the peer has closed
RcvChunk ==
  /\ rcv.pc = "loop"
  /\ rcv.received < rcv.size
  /\ net.s2c # <<>> \/ net.sclosed
  /\ IF net.s2c = <<>>
     THEN /\ rcv' = [rcv EXCEPT !.pc = "return"]
          /\ UNCHANGED <<net, dest>>
     ELSE \E k \in 1..Min(Len(net.s2c), ChunkSize) :
            /\ dest' = [dest EXCEPT !.data = @ \o SubSeq(net.s2c, 1, k)]
            /\ net' = [net EXCEPT !.s2c = SubSeq(@, k + 1, Len(@))]
            /\ rcv' = [rcv EXCEPT !.received = @ + k]
  /\ UNCHANGED <<path, src, touched, snd, conns>>
  /\ UNCHANGED ctlVars

\* lines 81-82: the loop is over; the socket is closed and the path returned
RcvReturn ==
  /\ \/ rcv.pc = "loop" /\ rcv.received >= rcv.size
     \/ rcv.pc = "return"
  /\ RcvEnd("ok")
  /\ UNCHANGED <<path, src, touched, snd, dest, conns>>
  /\ UNCHANGED ctlVars

\* the caller has the outcome of receive_file
RcvDone ==
  /\ rcv.pc = "done"
  /\ rcv' = Rcv0
  /\ UNCHANGED <<path, src, touched, snd, net, dest, conns>>
  /\ UNCHANGED ctlVars

\* one step of receive_file
RcvStep ==
  \/ RcvConnect \/ RcvMeta \/ RcvReady \/ RcvOpen \/ RcvChunk \/ RcvReturn

\* Ctrl+C ends the sender while it waits for or serves a connection: KeyboardInterrupt
\* leaves send_file through its with blocks, which close both sockets
SndInterrupt ==
  /\ snd.pc \in {"accept", "stat", "recv_ack", "open", "read", "sendall"}
  /\ SndRaise("KeyboardInterrupt")
  /\ UNCHANGED <<path, src, touched, rcv, dest, conns>>
  /\ UNCHANGED ctlVars

\* what a peer that is not receive_file sends where the acknowledgement is expected
AckTokens == {READY, <<"N", "O">>, READY \o <<"!">>, <<BadByte>>}

\* some other program connects to the listening socket
PeerConnect ==
  /\ rcv.pc = "idle" /\ conns < MaxConns
  /\ net.listening
  /\ rcv' = [Rcv0 EXCEPT !.pc = "peer"]
  /\ net' = [net EXCEPT !.backlog = TRUE, !.link = FALSE]
  /\ conns' = conns + 1
  /\ UNCHANGED <<path, src, touched, snd, dest>>
  /\ UNCHANGED ctlVars

\* the peer sends bytes on the accepted connection, once
PeerSend(token) ==
  /\ rcv.pc = "peer" /\ net.link /\ ~net.sclosed
  /\ token \in AckTokens
  /\ rcv.received = 0 /\ net.c2s = <<>>
  /\ net' = [net EXCEPT !.c2s = token]
  /\ rcv' = [rcv EXCEPT !.received = 1]
  /\ UNCHANGED <<path, src, touched, snd, dest, conns>>
  /\ UNCHANGED ctlVars

\* the peer reads what has arrived
PeerRecv ==
  /\ rcv.pc = "peer" /\ net.link /\ net.s2c # <<>>
  /\ net' = [net EXCEPT !.s2c = <<>>]
  /\ UNCHANGED <<path, src, touched, snd, rcv, dest, conns>>
  /\ UNCHANGED ctlVars

\* the peer closes its socket
PeerClose ==
  /\ rcv.pc = "peer"
  /\ RcvEnd("closed")
  /\ UNCHANGED <<path, src, touched, snd, dest, conns>>
  /\ UNCHANGED ctlVars

\* environment: the source file is removed
RemoveSource ==
  /\ src # NoFile
  /\ src' = NoFile
  /\ touched' = TRUE
  /\ UNCHANGED <<path, snd, rcv, net, dest, conns>>
  /\ UNCHANGED ctlVars

\* another process rewrites the source file to a different length while send_file runs
\* (a file that is still being written, or one that is truncated)
ChangeSource(n) ==
  /\ src # NoFile /\ n \in 0..MaxFileLen /\ n # Len(src.data)
  /\ src' = File(SourceData(n))
  /\ touched' = TRUE
  /\ UNCHANGED <<path, snd, rcv, net, dest, conns>>
  /\ UNCHANGED ctlVars

\* no transfer: the state of the transfer variables where only the controller acts
InitNoXfer ==
  /\ path = <<"a">> /\ src = NoFile /\ touched = FALSE
  /\ snd = Snd0 /\ rcv = Rcv0 /\ net = Net0 /\ dest = NoFile /\ conns = 0

\* a transfer: any source file of the model, or none
InitXfer ==
  /\ path \in FileNames
  /\ src \in {NoFile} \cup { File(SourceData(n)) : n \in 0..MaxFileLen }
  /\ touched = FALSE
  /\ snd = Snd0 /\ rcv = Rcv0 /\ net = Net0 /\ dest = NoFile /\ conns = 0

(* ---------------------------- specification --------------------------- *)

vars == <<cfg, store, procs, manifests, clock, launched, timers, th, node,
          path, src, touched, snd, rcv, net, dest, conns>>

\* nothing recorded yet, no command running
InitMgr ==
  /\ store = Absent
  /\ procs = [n \in Launches |-> "none"]
  /\ manifests = [p \in BagPaths |-> NoFile]
  /\ clock = 0
  /\ launched = 0
  /\ timers = [n \in Launches |-> NoTimer]
  /\ th = [t \in Threads |-> Frame0]

\* the same with no auto-start node
InitCtl == node = Node0 /\ InitMgr

Init == cfg \in CtlConfigs /\ InitCtl /\ InitNoXfer

\* one step of thread t inside is_recording, a detached start_recording or stop_recording
CtlStep(t) ==
  \/ IrRead(t) \/ IrProbe(t) \/ IrClear(t)
  \/ StartBuild(t) \/ StartPopen(t) \/ StartWrite(t) \/ StartPoll(t) \/ StartClear(t)
  \/ StopRead(t) \/ StopKill(t) \/ StopClearDead(t) \/ StopMeta(t) \/ StopClear(t)
  \/ Return(t)

\* one step of thread t that only a foreground start_recording takes
FgStep(t) == StartRun(t) \/ StartWait(t) \/ StartInterrupt(t) \/ StartMeta(t)

\* one step of thread t that only a transfer command takes
TcpStep(t) ==
  \/ TcpRunDispatch(t) \/ TcpReceiveOpen(t)
  \/ \E found \in {"nopath", "nofile", "file"} : TcpSendOpen(t, found)
  \/ \E result \in {"ok", "TransferError", "Interrupted"} : TcpClose(t, result)

\* one step of thread t inside a call
ThreadStep(t) == CtlStep(t) \/ FgStep(t) \/ TcpStep(t)

\* no call is in progress in any thread
AllIdle == \A u \in Threads : th[u].pc = "idle"

\* the caller of the sequential behaviours
SeqCallers == {101}

\* Spec: commands that do not overlap.  A command begins when no other is running;
\* the recorder processes and the clock act at any time.
Next ==
  \/ \E t \in SeqCallers : AllIdle /\ CallIsRecording(t)
  \/ \E t \in SeqCallers, fg \in BOOLEAN :
       AllIdle /\ CallStart(t, fg)
  \/ \E t \in SeqCallers : AllIdle /\ CallStop(t)
  \/ \E t \in SeqCallers : AllIdle /\ Status(t)
  \/ \E t \in SeqCallers : CtlStep(t) \/ FgStep(t)
  \/ \E n \in Launches : ProcExit(n)
  \/ \E c \in CtlConfigs : AllIdle /\ Reconfigure(c)
  \/ Tick

Spec == Init /\ [][Next]_vars


\* SpecGate: the transfer commands among detached sessions, commands not overlapping
GateConfig == Config(<<"/a">>, 0, FALSE, FALSE, FALSE, FALSE, 0)

InitGate == cfg = GateConfig /\ InitCtl /\ InitNoXfer

NextGate ==
  \/ \E t \in SeqCallers, cmd \in TcpOps, mode \in {"none", "server", "client", "ask"} :
       AllIdle /\ CallTcp(t, cmd, mode)
  \/ \E t \in SeqCallers : AllIdle /\ CallStart(t, FALSE)
  \/ \E t \in SeqCallers : AllIdle /\ CallStop(t)
  \/ \E t \in SeqCallers : CtlStep(t) \/ TcpStep(t)
  \/ \E n \in Launches : ProcExit(n)

SpecGate == InitGate /\ [][NextGate]_vars

\* SpecLive: detached sessions started and stopped, commands not overlapping, where a
\* thread inside a call goes on running
NextLive ==
  \/ \E t \in SeqCallers : AllIdle /\ CallStart(t, FALSE)
  \/ \E t \in SeqCallers : AllIdle /\ CallStop(t)
  \/ \E t \in SeqCallers : CtlStep(t)
  \/ \E n \in Launches : ProcExit(n)
  \/ Tick

SpecLive ==
  InitGate /\ [][NextLive]_vars /\ \A t \in SeqCallers : WF_vars(CtlStep(t))

\* SpecAttached: one controller runs attached sessions while another asks for the
\* status, calls is_recording and starts and stops detached sessions
Operator == 101
Observer == 102

NextAttached ==
  \/ CallStart(Operator, TRUE)
  \/ CtlStep(Operator) \/ FgStep(Operator)
  \/ CallIsRecording(Observer)
  \/ Status(Observer)
  \/ CallStart(Observer, FALSE)
  \/ CallStop(Observer)
  \/ CtlStep(Observer)
  \/ \E n \in Launches : ProcExit(n)
  \/ Tick

SpecAttached == InitGate /\ [][NextAttached]_vars

\* SpecTimer: one program starts and stops detached sessions with or without a
\* maximum duration; the timers it schedules fire in their own threads at any time
\* after they were scheduled, and the program may exit between two calls
TimerConfig == Config(<<"/a">>, 1, FALSE, FALSE, FALSE, FALSE, 0)

InitTimer == cfg \in {TimerConfig, GateConfig} /\ InitCtl /\ InitNoXfer

NextTimer ==
  \/ CallStart(Operator, FALSE)
  \/ CallStop(Operator)
  \/ CtlStep(Operator)
  \/ \E n \in Launches : TimerFire(n)
  \/ \E n \in Launches : CtlStep(n)
  \/ \E n \in Launches : ProcExit(n)
  \/ ProgramExit(Operator)

SpecTimer == InitTimer /\ [][NextTimer]_vars

\* SpecDamage: the commands of one controller, not overlapping, over a state file
\* that gets damaged between two commands
NextDamage ==
  \/ AllIdle /\ CallIsRecording(Operator)
  \/ AllIdle /\ Status(Operator)
  \/ AllIdle /\ CallStart(Operator, FALSE)
  \/ AllIdle /\ CallStop(Operator)
  \/ CtlStep(Operator)
  \/ \E n \in Launches : ProcExit(n)
  \/ \E d \in DamageKinds : AllIdle /\ Damage(d)

SpecDamage == InitGate /\ [][NextDamage]_vars

\* SpecStore: one controller starts and stops detached sessions while a second one,
\* created later, asks for the status, calls is_recording and starts sessions too
NextStore ==
  \/ CallStart(Operator, FALSE)
  \/ CallStop(Operator)
  \/ CtlStep(Operator)
  \/ Status(Observer)
  \/ CallIsRecording(Observer)
  \/ CallStart(Observer, FALSE)
  \/ CtlStep(Observer)
  \/ \E n \in Launches : ProcExit(n)

SpecStore == InitGate /\ [][NextStore]_vars

\* SpecStatus: the commands of one controller, not overlapping, among them the status
\* call and the record status command
NextStatus ==
  \/ AllIdle /\ Status(Operator)
  \/ AllIdle /\ CallPrintStatus(Operator)
  \/ AllIdle /\ CallStart(Operator, FALSE)
  \/ AllIdle /\ CallStop(Operator)
  \/ CtlStep(Operator)
  \/ \E n \in Launches : ProcExit(n)
  \/ Tick

SpecStatus == InitGate /\ [][NextStatus]_vars

\* SpecRace: the commands of two controllers, their steps interleaving freely
RaceConfig == Config(<<"/b", "/a">>, 0, FALSE, FALSE, FALSE, FALSE, 0)

InitRace == cfg = RaceConfig /\ InitCtl /\ InitNoXfer

NextRace ==
  \/ \E t \in Callers : CallStart(t, FALSE)
  \/ \E t \in Callers : CallStop(t)
  \/ \E t \in Callers : CtlStep(t)
  \/ \E n \in Launches : ProcExit(n)
  \/ Tick

SpecRace == InitRace /\ [][NextRace]_vars

\* SpecXfer: one send_file call and receive_file calls one after another, over a source
\* file that may be removed at any time; the controller does not act
InitXferCtl == cfg = GateConfig /\ InitCtl /\ InitXfer

NextXfer ==
  \/ SndCall
  \/ SndStep
  \/ RcvCall
  \/ RcvStep
  \/ RcvDone
  \/ RemoveSource

SpecXfer == InitXferCtl /\ [][NextXfer]_vars

\* SpecPeer: one send_file call serving, one after another, connections of programs
\* that send anything where the acknowledgement is expected, or nothing
NextPeer ==
  \/ SndCall
  \/ SndStep
  \/ PeerConnect
  \/ \E token \in AckTokens : PeerSend(token)
  \/ PeerRecv
  \/ PeerClose
  \/ RcvDone

SpecPeer == InitXferCtl /\ [][NextPeer]_vars

\* SpecBuild: detached sessions started and stopped by one controller, under any of
\* the settings of BuildConfigs
InitBuild == cfg \in BuildConfigs /\ InitCtl /\ InitNoXfer

NextBuild ==
  \/ CallStart(Operator, FALSE)
  \/ CallStop(Operator)
  \/ CtlStep(Operator)
  \/ \E n \in Launches : ProcExit(n)

SpecBuild == InitBuild /\ [][NextBuild]_vars

\* SpecCli: the commands of the command line one after another (record start attached
\* or detached, record stop, record status, tcp send, receive and run), any of them
\* interrupted by Ctrl+C at any point
NextCli ==
  \/ \E fg \in BOOLEAN : CallStart(Operator, fg)
  \/ CallStop(Operator)
  \/ CallPrintStatus(Operator)
  \/ \E cmd \in TcpOps, mode \in {"none", "server", "client", "ask"} :
       CallTcp(Operator, cmd, mode)
  \/ ThreadStep(Operator)
  \/ Interrupt(Operator)
  \/ \E n \in Launches : ProcExit(n)

SpecCli == Init /\ [][NextCli]_vars

\* SpecEarly: SpecXfer with a sender that may be ended by Ctrl+C at any point of a
\* connection, and a receiver that goes on running
\* A transfer command given by one operator while another starts and stops detached
\* sessions: two command-line processes on one state file, in any interleaving.
NextOverlap ==
  \/ \E cmd \in TcpOps, mode \in {"none", "server", "client", "ask"} :
       CallTcp(Operator, cmd, mode)
  \/ CtlStep(Operator) \/ TcpStep(Operator)
  \/ CallStart(Observer, FALSE)
  \/ CallStop(Observer)
  \/ CtlStep(Observer)
  \/ \E n \in Launches : ProcExit(n)

SpecOverlap == InitGate /\ [][NextOverlap]_vars

\* The auto-start node: its callback runs on NodeThread for each status message, between
\* the commands an operator gives on the command line (detached start, stop) and the
\* recorder exiting or the node being interrupted while it waits for its recorder.
Behaviors == {"toggle_arm", "level"}

InitNode ==
  /\ cfg = GateConfig
  /\ node \in { Node(a, b) : a \in BOOLEAN, b \in Behaviors }
  /\ InitMgr /\ InitNoXfer

NodeStep ==
  \/ IrRead(NodeThread) \/ IrProbe(NodeThread) \/ IrClear(NodeThread)
  \/ StartBuild(NodeThread) \/ StartRun(NodeThread) \/ StartWait(NodeThread)
  \/ StartInterrupt(NodeThread) \/ StartMeta(NodeThread)
  \/ NodeFinish

NextNode ==
  \/ \E m \in ArmingStates : AllIdle /\ OnVehicleStatus(m)
  \/ NodeStep
  \/ AllIdle /\ CallStart(Operator, FALSE)
  \/ AllIdle /\ CallStop(Operator)
  \/ CtlStep(Operator)
  \/ \E n \in Launches : ProcExit(n)

SpecNode == InitNode /\ [][NextNode]_vars

\* Detached sessions and is_recording calls, one call at a time, on a host that reuses
\* the pids of recorders that have exited.
SpecReuse ==
  InitGate /\ [][\/ NextLive
                 \/ \E t \in SeqCallers : AllIdle /\ CallIsRecording(t)
                 \/ \E n \in Launches : PidReuse(n)]_vars

\* A transfer of a file that other processes may rewrite while it is served.
NextChange ==
  \/ SndCall
  \/ SndStep
  \/ RcvCall
  \/ RcvStep
  \/ RcvDone
  \/ \E n \in 0..MaxFileLen : ChangeSource(n)

SpecChange == InitXferCtl /\ [][NextChange]_vars

NextEarly ==
  \/ SndCall
  \/ SndStep
  \/ SndInterrupt
  \/ RcvCall
  \/ RcvStep
  \/ RcvDone
  \/ RemoveSource

SpecEarly == InitXferCtl /\ [][NextEarly]_vars /\ WF_vars(RcvStep)

(* -------------------------------- claims ------------------------------ *)

\* the process table holds a running process with this pid
Live(pid) == pid \in DOMAIN procs /\ procs[pid] = "rec"

\* a record is present and its process is live: what isActive() reports as true
Active == ReadState(store) # None /\ Live(ReadState(store).pid)

\* thread t is inside a call of operation o
Running(t, o) == th[t].pc \notin {"idle", "done"} /\ th[t].op = o

\* thread t has just finished a call of operation o with this result
Finished(t, o, result) == th[t].pc = "done" /\ th[t].op = o /\ th[t].ret = result

\* C1 as stated: with an empty topic list every start() fails with the configuration
\* error, launches no process and leaves the State Store exactly as it was.
C1_Original ==
  [][\A t \in Threads :
       (Running(t, "start") /\ th[t].cfg.topics = <<>> /\ ThreadStep(t))
         => /\ store' = store
            /\ launched' = launched /\ procs' = procs
            /\ (th'[t].pc = "done" => th'[t].ret = "ConfigurationError")]_vars

\* C1 as amended: with an empty topic list start() launches no process, writes no record
\* and no manifest; it fails with the already-active error when the recorded process is
\* live and with the configuration error otherwise; the only change it makes to the
\* State Store is the removal, by its isActive() check, of a record whose process is dead.
C1_EmptyTopics ==
  [][\A t \in Threads :
       (Running(t, "start") /\ th[t].cfg.topics = <<>> /\ ThreadStep(t))
         => /\ launched' = launched /\ procs' = procs /\ manifests' = manifests
            /\ timers' = timers
            /\ \/ store' = store
               \/ ReadState(store) # None /\ ~Live(ReadState(store).pid) /\ store' = Absent
            /\ (th'[t].pc = "done"
                  => th'[t].ret = IF Active THEN "AlreadyActive"
                                            ELSE "ConfigurationError")]_vars

\* a start() with an empty topic list has removed a stale record and failed
C1_Witness ==
  \E t \in Threads :
    /\ Finished(t, "start", "ConfigurationError") /\ th[t].healed
    /\ store = Absent /\ \E n \in Launches : procs[n] = "gone"

\* C2: start() while isActive() is true fails with the already-active error, launches no
\* process and leaves the record of the running session unchanged.
C2_AlreadyActive ==
  [][\A t \in Threads :
       (Running(t, "start") /\ th[t].pc \in {"ir_read", "ir_probe"} /\ Active
        /\ ThreadStep(t))
         => /\ UNCHANGED <<store, procs, launched, manifests, timers>>
            /\ \/ th'[t].pc = "ir_probe"
               \/ th'[t].pc = "done" /\ th'[t].ret = "AlreadyActive"]_vars

\* a start() has failed with the already-active error and the session is still recorded
C2_Witness ==
  \E t \in Threads : Finished(t, "start", "AlreadyActive") /\ Active

\* C3: a successful detached start() leaves the record of its live recorder in the State
\* Store; isActive() returns false on an absent store, true (record untouched) when the
\* recorded process is live, and false with the record cleared when it is not live; it
\* touches nothing else.
C3_IsActive ==
  /\ [](\A t \in Threads :
          (Finished(t, "start", "ok") /\ ~th[t].fg)
            => /\ ReadState(store) = th[t].rstate /\ ReadState(store) # None
               /\ procs[ReadState(store).pid] \in {"rec", "gone"})
  /\ [][\A t \in Threads :
          /\ (StartPoll(t) /\ th'[t].pc = "done") => Live(th[t].state.pid)
          /\ (Running(t, "is_recording") /\ ThreadStep(t))
               => /\ UNCHANGED <<procs, launched, manifests, timers>>
                  /\ th'[t].pc # "done" => store' = store
                  /\ th'[t].pc = "done" =>
                       CASE ReadState(store) = None ->
                              th'[t].ret = "false" /\ store' = store
                         [] ReadState(store) # None /\ Live(ReadState(store).pid) ->
                              th'[t].ret = "true" /\ store' = store
                         [] OTHER ->
                              th'[t].ret = "false" /\ store' = Absent]_vars

\* isActive() has found the recorded process gone, cleared the record and returned false
C3_Witness ==
  \E t \in Threads :
    /\ Finished(t, "is_recording", "false") /\ th[t].healed
    /\ store = Absent /\ \E n \in Launches : procs[n] = "gone"

\* C4: stop() on an absent State Store fails with the no-active-session error and changes
\* nothing; a stop() that returns successfully leaves the State Store absent, so that a
\* stop() following it fails in the same way.
C4_StopIdle ==
  /\ [](\A t \in Threads : Finished(t, "stop", "ok") => store = Absent)
  /\ [][\A t \in Threads :
          (Running(t, "stop") /\ th[t].pc = "stop_read" /\ store = Absent /\ ThreadStep(t))
            => /\ th'[t].pc = "done" /\ th'[t].ret = "NoActiveSession"
               /\ UNCHANGED <<store, procs, launched, manifests, timers>>]_vars

\* a stop() has failed with the no-active-session error after a session had been stopped
C4_Witness ==
  \E t \in Threads :
    /\ Finished(t, "stop", "NoActiveSession")
    /\ store = Absent /\ launched > 0 /\ \A n \in Launches : procs[n] # "rec"

\* C5 as stated: whenever stop() returns successfully, the manifest of the session it
\* stopped exists and lists the topics the session was started with, in order.
C5_RoundTrip ==
  [][\A t \in Threads :
       (Running(t, "stop") /\ ThreadStep(t) /\ th'[t].pc = "done" /\ th'[t].ret = "ok")
         => LET m == manifests'[th[t].state.bag_path] IN
              /\ m.kind = "manifest"
              /\ \E c \in CtlConfigs :
                   /\ c.topics = m.topics
                   /\ th[t].state.command = BuildCommand(c, th[t].state.bag_path)]_vars

\* C8: a send, receive or auto-negotiated transfer attempted while a detached session is
\* active fails with the transfer-disabled error, and no socket exists (nor is about to
\* be created) while a session is active.
C8_Gate ==
  /\ [](\A t \in Threads : th[t].pc \in {"tcp_go", "tcp_open"} => ~Active)
  /\ [][\A t \in Threads :
          (th[t].op \in TcpOps /\ th[t].pc \in {"ir_read", "ir_probe"} /\ Active
           /\ ThreadStep(t))
            => /\ UNCHANGED <<store, procs, launched, manifests, timers>>
               /\ \/ th'[t].pc = "ir_probe"
                  \/ th'[t].pc = "done" /\ th'[t].ret = "TransferDisabled"]_vars

\* a transfer command has been refused while the session is active
C8_Witness ==
  \E t \in Threads :
    /\ th[t].pc = "done" /\ th[t].op \in TcpOps /\ th[t].ret = "TransferDisabled"
    /\ Active

\* C9: nothing but the isActive() check orders two start() calls: each write of a record
\* replaces whatever the State Store held, so that when two calls have both passed the
\* check and launched, the store holds the record of one of them only.
C9_LastWriteWins ==
  /\ [](\A t, u \in Callers :
          (t # u /\ th[t].pc = "start_poll" /\ th[u].pc = "start_poll")
            => ReadState(store) \in {th[t].state, th[u].state})
  /\ [][\A t \in Callers :
          (th[t].pc = "start_write" /\ CtlStep(t)) => ReadState(store') = th[t].state]_vars

\* two start() calls have both launched a recorder, both recorders run, and the State
\* Store holds the record of the second only
C9_Witness ==
  /\ th[101].pc = "start_poll" /\ th[102].pc = "start_poll"
  /\ Live(th[101].state.pid) /\ Live(th[102].state.pid)
  /\ th[101].state.pid # th[102].state.pid
  /\ ReadState(store) = th[102].state

\* C6: over a source file that exists and is not changed, a receive_file call that
\* returns leaves the destination file named as the source and equal to it byte for
\* byte, whatever its size; and while a receive_file call is in progress the sender or
\* the receiver can always take a step, so that the handshake never deadlocks.
C6_Transfer ==
  /\ (rcv.pc = "done" /\ rcv.ret = "ok" /\ src # NoFile /\ ~touched)
       => dest = [kind |-> "file", name |-> path, data |-> src.data]
  /\ rcv.pc \notin {"idle", "done"} => ENABLED (SndStep \/ RcvStep)

\* a receive_file call has returned with the whole of the longest source file, which
\* is longer than a chunk and than the connection buffers
C6_Witness ==
  /\ rcv.pc = "done" /\ rcv.ret = "ok" /\ ~touched
  /\ src # NoFile /\ Len(src.data) = MaxFileLen
  /\ dest = [kind |-> "file", name |-> path, data |-> src.data]
  /\ snd.pc = "accept"

\* C7 as stated: when the source file is absent on an accepted connection the sender
\* sends an error string on it and closes it, and the receiver of that connection
\* raises the transfer error and writes no destination file.
C7_AbsentSource ==
  /\ [][(snd.pc = "stat" /\ src = NoFile /\ SndMeta)
          => StartsWith(net'.s2c, ERROR) /\ net'.sclosed]_vars
  /\ [][(snd.via = "stat" /\ net.link /\ RcvStep) => dest' = dest]_vars
  /\ [](rcv.pc = "done" /\ snd.via = "stat" /\ net.link
          => rcv.ret = "TransferError")

\* C10: when a record is present and the termination signal cannot be delivered because
\* the process is gone, stop() clears the State Store and returns without raising (and
\* does nothing else).
C10_StopDead ==
  [][\A t \in Threads :
       (Running(t, "stop") /\ ThreadStep(t))
         => /\ (th[t].pc = "stop_kill" /\ ~Live(th[t].state.pid))
                 => th'[t].pc = "stop_clear_dead" /\ store' = store
            /\ th[t].pc = "stop_clear_dead"
                 => /\ store' = Absent
                    /\ th'[t].pc = "done" /\ th'[t].ret = "ok"
            /\ th[t].pc \in {"stop_kill", "stop_clear_dead"}
                 => UNCHANGED <<procs, launched, manifests, timers>>]_vars

\* a stop() has found the recorded process gone, cleared the record and returned
C10_Witness ==
  \E t \in Threads :
    /\ Finished(t, "stop", "ok") /\ th[t].via = "stop_clear_dead"
    /\ store = Absent

\* C11: stop() always terminates.  Once the signal is delivered it calls isActive() at
\* most PollLimit = 60 times (LoopLimit times in the model), and whether the process left
\* or the bound was reached it writes the manifest of the session, clears the State
\* Store and returns without error.
C11_StopTerminates ==
  /\ [](\A t \in Threads :
          Running(t, "stop") => th[t].i < LoopLimit /\ LoopLimit <= PollLimit)
  /\ [][\A t \in Threads :
          (/\ Running(t, "stop")
           /\ th[t].pc \in {"ir_read", "ir_probe", "ir_clear", "stop_meta", "stop_clear"}
           /\ ThreadStep(t))
            => /\ th'[t].pc = "stop_clear"
                 => manifests'[th[t].state.bag_path] = Manifest(th[t].cfg, th[t].state)
               /\ th'[t].pc = "done"
                 => /\ th[t].pc = "stop_clear" /\ th'[t].ret = "ok"
                    /\ store' = Absent
                    /\ manifests[th[t].state.bag_path].kind = "manifest"]_vars
  /\ \A t \in SeqCallers : Running(t, "stop") ~> th[t].pc = "done"

\* a stop() has returned after the bound was reached: the recorder still runs, its
\* manifest is written and the State Store is empty
C11_Witness ==
  \E t \in Threads :
    /\ Finished(t, "stop", "ok") /\ th[t].via = "stop_clear"
    /\ store = Absent /\ launched = 1 /\ procs[1] = "rec"
    /\ \E p \in BagPaths : manifests[p].kind = "manifest"

\* C12: a detached start() writes the record, holding the pid of the process it
\* spawned, before it waits and polls; when the process has left by the poll it clears
\* the State Store and fails with the launch-failed error, and no timer is scheduled:
\* a timer is scheduled only by the poll that finds the process running.
C12_DetachedStart ==
  [][/\ \A t \in Threads :
          (Running(t, "start") /\ ~th[t].fg /\ ThreadStep(t))
            => /\ th[t].pc = "start_write"
                 => /\ ReadState(store') = th[t].state /\ th[t].state.pid = th[t].proc
                    /\ th'[t].pc = "start_poll"
               /\ (th[t].pc = "start_poll" /\ procs[th[t].proc] # "rec")
                 => th'[t].pc = "start_clear" /\ store' = store
               /\ th[t].pc = "start_clear"
                 => /\ store' = Absent
                    /\ th'[t].pc = "done" /\ th'[t].ret = "LaunchFailed"
               /\ th'[t].pc = "done" /\ th'[t].ret = "LaunchFailed"
                 => th[t].pc = "start_clear"
     /\ timers' # timers
          => \E t \in Threads :
               /\ th[t].pc = "start_poll" /\ procs[th[t].proc] = "rec"
               /\ th[t].cfg.duration > 0
               /\ timers' = [timers EXCEPT ![th[t].proc] = PendingTimer(th[t].cfg)]]_vars

\* under settings with a positive duration a detached start() has failed with the
\* launch-failed error: the State Store is empty and no timer is scheduled
C12_Witness ==
  \E t \in Threads :
    /\ Finished(t, "start", "LaunchFailed") /\ ~th[t].fg
    /\ cfg.duration > 0 /\ launched = 1 /\ procs[1] = "gone"
    /\ store = Absent /\ \A n \in Launches : timers[n] = NoTimer

\* C13: an attached start() never writes a record: past its isActive() check it leaves
\* the State Store as it is, so that nothing another controller reads from the store
\* (status(), isActive()) refers to the attached session's process; when the recorder
\* returns, also after an operator interrupt, it writes the manifest and returns a
\* state whose pid is zero.
C13_Attached ==
  /\ [](\A t, u \in Threads :
          (Running(t, "start") /\ th[t].fg /\ th[t].pc \in {"start_wait", "start_meta"})
            => /\ ReadState(store) # None => ReadState(store).pid # th[t].proc
               /\ th[u].irstate # None => th[u].irstate.pid # th[t].proc
               /\ th[u].rstate # None => th[u].rstate.pid # th[t].proc)
  /\ [][\A t \in Threads :
          (Running(t, "start") /\ th[t].fg /\ ThreadStep(t))
            => /\ th[t].pc \notin {"ir_read", "ir_probe", "ir_clear"} => store' = store
               /\ store' # store => store' = Absent
               /\ th[t].pc = "start_wait" => th'[t].pc = "start_meta"
               /\ th[t].pc = "start_meta"
                 => /\ th'[t].pc = "done" /\ th'[t].ret = "ok"
                    /\ th'[t].rstate = th[t].state /\ th[t].state.pid = 0
                    /\ manifests'[th[t].state.bag_path] = Manifest(th[t].cfg, th[t].state)
               /\ (th'[t].pc = "done" /\ th'[t].ret = "ok") => th[t].pc = "start_meta"]_vars

\* while an attached session runs, another controller's isActive() has returned false
\* and the State Store is absent
C13_Witness ==
  /\ th[Operator].pc = "start_wait" /\ th[Operator].fg
  /\ procs[th[Operator].proc] = "rec"
  /\ Finished(Observer, "is_recording", "false")
  /\ store = Absent

\* C14: after a successful detached start with a positive maximum duration exactly one
\* deferred stop is scheduled, and it fires without any further action by the caller:
\* once scheduled it stays scheduled until it fires.  With a zero duration or a failed
\* start no deferred stop is scheduled, and a deferred stop runs only for a timer that
\* was scheduled.
C14_DeferredStop ==
  /\ [][\A t \in Threads :
          (/\ Running(t, "start") /\ ~th[t].fg /\ th[t].pc = "start_poll"
           /\ ThreadStep(t))
            => IF procs[th[t].proc] = "rec" /\ th[t].cfg.duration > 0
                 THEN timers' = [timers EXCEPT ![th[t].proc] = PendingTimer(th[t].cfg)]
                 ELSE timers' = timers]_vars
  /\ [][\A n \in Launches :
          /\ (timers[n].st # "pending" /\ timers'[n].st = "pending")
               => \E t \in Threads : th[t].pc = "start_poll" /\ th[t].proc = n
                                      /\ th'[t].pc = "done" /\ th'[t].ret = "ok"
          /\ (th[n].pc = "idle" /\ th'[n].pc # "idle")
               => /\ timers[n].st = "pending" /\ timers[n].cfg.duration > 0
                  /\ timers'[n] = FiredTimer
                  /\ th'[n].op = "stop"
          /\ timers[n].st = "pending" => timers'[n].st \in {"pending", "fired"}]_vars

\* C15: the timer's stop and a manually invoked stop may interleave in any way and
\* neither raises: the stop of a timer thread always finishes without an error, also
\* when the manual stop has already cleared the state file, and a manual stop that
\* finishes while a timer's stop is in progress finishes without an error.
C15_TimerRace ==
  /\ [](\A n \in Launches : th[n].pc = "done" => th[n].ret = "ok")
  /\ [][\A t \in Callers :
          (/\ Running(t, "stop") /\ th'[t].pc = "done"
           /\ \E n \in Launches : th[n].pc # "idle" /\ th[n].op = "stop")
            => th'[t].ret = "ok"]_vars

\* a document in STATE_FILE that is not the document of a recording state
Corrupt(file) ==
  \/ file.kind = "garbage"
  \/ /\ file.kind = "json"
     /\ \/ file.pid.t # "num" \/ file.start_time.t # "num" \/ file.command.t # "arr"
        \/ file.bag_name.t # "str" \/ file.bag_path.t # "str"

\* C16: a partial or corrupt record never crashes a caller: reading it gives None, so
\* is_recording returns false, status returns None, stop fails with the
\* no-active-session error and start goes on as if no session were known; no call
\* ends with any other error.
C16_CorruptRecord ==
  /\ [](Corrupt(store) => ReadState(store) = None)
  /\ [](\A t \in Threads :
          th[t].pc = "done"
            => th[t].ret \in {"ok", "true", "false", "NoActiveSession", "AlreadyActive",
                              "LaunchFailed", "ConfigurationError"})
  /\ [][\A t \in Threads :
          Corrupt(store)
            => /\ (th[t].pc = "idle" /\ th'[t].op = "status") => th'[t].rstate = None
               /\ (th[t].pc = "stop_read" /\ ThreadStep(t))
                    => th'[t].pc = "done" /\ th'[t].ret = "NoActiveSession"
               /\ (th[t].pc = "ir_read" /\ th[t].op = "is_recording" /\ ThreadStep(t))
                    => th'[t].pc = "done" /\ th'[t].ret = "false"
               /\ (th[t].pc = "ir_read" /\ th[t].op = "start" /\ ThreadStep(t))
                    => th'[t].pc = "start_build"]_vars

\* C17: reading the state file after a write gives a record equal to the written one in
\* all five fields; a write replaces whatever the file held, so the file holds nothing
\* or the one record written last; after a clear a read gives None, and a clear of an
\* absent file changes nothing; the file is shared, so the status call of a controller
\* created later returns the record another controller's detached start wrote.
C17_StoreRoundTrip ==
  /\ [](store # Absent
         => /\ ReadState(store) # None
            /\ store = StateFile(ReadState(store))
            /\ ReadState(store).pid \in 1..launched)
  /\ [][\A t \in Threads :
          ThreadStep(t)
            => /\ th[t].pc = "start_write"
                    => LET r == ReadState(store') IN
                         /\ r = th[t].state
                         /\ r.pid = th[t].state.pid
                         /\ r.bag_name = th[t].state.bag_name
                         /\ r.bag_path = th[t].state.bag_path
                         /\ r.start_time = th[t].state.start_time
                         /\ r.command = th[t].state.command
               /\ th[t].pc \in {"ir_clear", "start_clear", "stop_clear_dead", "stop_clear"}
                    => /\ store' = Absent /\ ReadState(store') = None
                       /\ th'[t].pc # th[t].pc
               /\ th[t].pc \notin {"start_write", "ir_clear", "start_clear",
                                    "stop_clear_dead", "stop_clear"}
                    => store' = store]_vars
  /\ [][\A u \in Threads :
          (th[u].pc = "idle" /\ th'[u].op = "status")
            => th'[u].pc = "done" /\ th'[u].rstate = ReadState(store) /\ store' = store]_vars

\* the second controller's start wrote the record of launch 1, the first controller's
\* start then wrote that of launch 2 over it, and the second controller's later status
\* call returned the record of launch 2
C17_Witness ==
  /\ Finished(Operator, "start", "ok") /\ th[Operator].rstate.pid = 2
  /\ Finished(Observer, "status", "ok") /\ th[Observer].rstate = th[Operator].rstate
  /\ procs[1] = "rec" /\ procs[2] = "rec"
  /\ ReadState(store) = th[Operator].rstate

\* C18: status() returns the record that is in the state file, or None, in one step that
\* changes neither the state file nor a process, a manifest or a timer, also when the
\* recorded process is gone; it never gets to the statements that signal a process.
\* (What the record status command changes, it changes in the is_recording call that
\* follows its status call.)
C18_Status ==
  /\ [](\A t \in Threads : th[t].op = "status" => th[t].pc = "done" /\ th[t].via = "idle")
  /\ [][\A t \in Threads :
          (th[t].pc = "idle" /\ th'[t].op \in {"status", "print_status"})
            => /\ th'[t].rstate = ReadState(store)
               /\ th'[t].op = "status" => th'[t].pc = "done" /\ th'[t].ret = "ok"
               /\ store' = store /\ procs' = procs /\ manifests' = manifests
               /\ timers' = timers]_vars

\* status() returned the record of a process that is gone, and the record is still there
C18_Witness ==
  /\ Finished(Operator, "status", "ok")
  /\ th[Operator].rstate # None /\ procs[th[Operator].rstate.pid] = "gone"
  /\ ReadState(store) = th[Operator].rstate

\* C19: on every connection the sender sends the metadata first and payload bytes only
\* after it received exactly READY; whatever else it receives, an empty read from a
\* closed peer included, it closes that connection without a payload byte and goes on
\* to accept the next connection.
C19_AckGate ==
  /\ [][snd.pc = "recv_ack" /\ snd' # snd
          => IF net.c2s = READY
               THEN snd'.pc = "open" /\ ~net'.sclosed /\ net'.s2c = net.s2c
               ELSE /\ snd'.pc = "accept" /\ net'.listening
                    /\ net'.sclosed /\ net'.s2c = net.s2c]_vars
  /\ [][/\ (snd'.pc = "recv_ack" /\ snd.pc # "recv_ack")
           => (snd.pc = "stat" /\ net'.s2c = net.s2c \o FormatMetadata(path, snd'.size))
        /\ snd'.pc = "open" => snd.pc \in {"recv_ack", "open"}
        /\ snd'.pc \in {"read", "sendall"} => snd.pc \in {"open", "read", "sendall"}
        /\ (Len(net'.s2c) > Len(net.s2c) /\ snd.pc # "stat")
           => (snd.pc = "sendall" /\ snd' # snd)]_vars

\* C20: whatever the compression setting is, the argument vector built with mcap
\* storage disabled holds no compression flag; where the vector holds the compression
\* flags, they stand as --compression-mode file --compression-format zstd directly
\* after --storage mcap.  (Topics are topic names, none of them spelled like a flag.)
C20_Compression ==
  [][\A t \in Threads :
       (th[t].pc = "start_build" /\ ThreadStep(t) /\ th'[t].pc # "done")
         => LET cmd == th'[t].state.command IN
              /\ ~th[t].cfg.mcap
                   => \A i \in 1..Len(cmd) :
                        cmd[i] \notin {"--compression-mode", "--compression-format"}
              /\ \A i \in 1..Len(cmd) :
                   /\ cmd[i] = "--compression-mode"
                        => /\ i > 2 /\ cmd[i - 2] = "--storage" /\ cmd[i - 1] = "mcap"
                           /\ i + 3 <= Len(cmd) /\ cmd[i + 1] = "file"
                           /\ cmd[i + 2] = "--compression-format"
                   /\ cmd[i] = "--compression-format"
                        => /\ i > 2 /\ cmd[i - 2] = "--compression-mode"
                           /\ i + 1 <= Len(cmd) /\ cmd[i + 1] = "zstd"
              /\ (th[t].cfg.mcap /\ th[t].cfg.compress)
                   => \E i \in 1..Len(cmd) : cmd[i] = "--compression-mode"]_vars

\* a command built with compression switched on and mcap storage off, with the other
\* optional flags in it
C20_Witness ==
  \E t \in Threads :
    /\ Running(t, "start") /\ th[t].pc = "start_popen"
    /\ ~th[t].cfg.mcap /\ th[t].cfg.compress
    /\ th[t].state.command =
         <<"ros2", "bag", "record", "-o", th[t].state.bag_path,
           "--qos-profile-overrides-path", "qos_file",
           "--max-bag-size", "1073741824", "/b", "/a">>

\* C21 as stated: a command exits with 0 exactly when it succeeded, with 130 exactly
\* when the user interrupted it, and with 1 exactly when it ended by a handled error.
C21_Original ==
  [](\A t \in Callers :
       th[t].pc = "done"
         => LET code == ExitCode(th[t].op, th[t].ret) IN
              /\ code = 130 <=> th[t].intr
              /\ code = 1 <=> th[t].ret \in HandledErrors
              /\ code = 0 <=> (~th[t].intr /\ th[t].ret \in {"ok", "active", "inactive"}))

\* C21: a command exits with 1 when it ended by a handled error, with 130 when Ctrl+C
\* ended it, and with 0 when it succeeded, with two exceptions: record status exits
\* with 1 when no session is active, and an attached record start that the user ends
\* with Ctrl+C writes its manifest and exits with 0.
C21_ExitCodes ==
  /\ [](\A t \in Callers :
          th[t].pc = "done"
            => LET code == ExitCode(th[t].op, th[t].ret) IN
                 /\ th[t].ret \in HandledErrors => code = 1
                 /\ th[t].ret = "Interrupted" => code = 130 /\ th[t].intr
                 /\ th[t].ret \in {"ok", "active"} => code = 0
                 /\ th[t].ret = "inactive" => code = 1 /\ th[t].op = "print_status"
                 /\ th[t].intr
                      => \/ th[t].ret = "Interrupted"
                         \/ /\ th[t].op = "start" /\ th[t].fg /\ th[t].ret = "ok"
                            /\ th[t].via = "start_meta"
                 /\ th[t].ret \in HandledErrors \cup {"Interrupted", "ok", "active",
                                                       "inactive"})
  /\ [][\A t \in Callers :
          (th[t].pc = "start_wait" /\ th'[t].intr)
            => /\ th'[t].pc = "start_meta"
               /\ procs[th[t].proc] = "rec" /\ procs'[th[t].proc] = "gone"]_vars

\* an attached start ended by Ctrl+C has finished with exit code 0, its manifest written
C21_Witness ==
  /\ Finished(Operator, "start", "ok") /\ th[Operator].fg /\ th[Operator].intr
  /\ ExitCode("start", "ok") = 0
  /\ manifests[th[Operator].rstate.bag_path].kind = "manifest"

C23_EarlyClose ==
  /\ [](rcv.pc \in {"loop", "return"}
         => /\ dest.kind = "file" /\ dest.name = rcv.name
            /\ Len(dest.data) = rcv.received)
  /\ [][/\ (rcv.pc = "loop" /\ rcv' # rcv /\ rcv.received < rcv.size /\ net.s2c = <<>>)
           => (net.sclosed /\ rcv'.pc = "return" /\ dest' = dest)
        /\ (rcv.pc \in {"loop", "return"} /\ rcv'.pc = "done")
           => /\ rcv'.ret = "ok" /\ dest' = dest
              /\ rcv.pc = "loop" => rcv.received >= rcv.size]_vars
  /\ (rcv.pc = "loop" /\ net.sclosed) ~> (rcv.pc = "done" /\ rcv.ret = "ok")

\* the sender was ended in the middle of the payload: receive_file has returned
\* normally with fewer bytes than declared, all of them in the destination file
C23_Witness ==
  /\ rcv.pc = "done" /\ rcv.ret = "ok"
  /\ 0 < rcv.received /\ rcv.received < rcv.size
  /\ dest.kind = "file" /\ Len(dest.data) = rcv.received
  /\ snd.pc = "dead" /\ snd.ret = "KeyboardInterrupt"

\* C24: the argument vector is a function of the settings and the output path alone
\* and consists, in this order, of: ros2 bag record -o <path>; --storage mcap if mcap
\* storage is on; the compression flags if compression is on as well; the
\* quality-of-service override flag with its file if the override is on and the file
\* exists (left out otherwise, the build going on); --max-bag-size with the size in
\* GiB times 1024^3 if the size is positive; the topics in their order.  Nothing else.
C24_BuildOrder ==
  [][\A t \in Threads :
       (th[t].pc = "start_build" /\ ThreadStep(t))
         => LET c == th[t].cfg
                cmd == th'[t].state.command
                base == <<"ros2", "bag", "record", "-o", FullBagPath(clock)>>
                storage == IF c.mcap THEN <<"--storage", "mcap">> ELSE <<>>
                compression ==
                  IF c.mcap /\ c.compress
                    THEN <<"--compression-mode", "file", "--compression-format", "zstd">>
                    ELSE <<>>
                qos == IF c.override_qos /\ c.qos_exists
                         THEN <<"--qos-profile-overrides-path", "qos_file">>
                         ELSE <<>>
                size == IF c.max_bag_size > 0
                          THEN <<"--max-bag-size", ToString(c.max_bag_size * 1024 * 1024 * 1024)>>
                          ELSE <<>>
            IN  IF c.topics = <<>>
                  THEN th'[t].pc = "done" /\ th'[t].ret = "ConfigurationError"
                  ELSE /\ th'[t].pc # "done"
                       /\ cmd = base \o storage \o compression \o qos \o size \o c.topics]_vars

\* a command built with the override switched on and its file missing: the flag is
\* left out and every other optional element is there
C24_Witness ==
  \E t \in Threads :
    /\ Running(t, "start") /\ th[t].pc = "start_popen"
    /\ th[t].cfg.override_qos /\ ~th[t].cfg.qos_exists
    /\ th[t].state.command =
         <<"ros2", "bag", "record", "-o", "bags/agi_log_0", "--storage", "mcap",
           "--compression-mode", "file", "--compression-format", "zstd",
           "--max-bag-size", "1073741824", "/b", "/a">>

\* The node's callback decides: its is_recording() call returns and it either calls
\* start_recording() or ends without a call.
NodeDecides ==
  /\ th[NodeThread].op = "on_status"
  /\ th[NodeThread].pc \in {"ir_read", "ir_probe", "ir_clear"}
  /\ th'[NodeThread].op = "start" \/ th'[NodeThread].pc = "done"

NodeCallsStart == th[NodeThread].op # "start" /\ th'[NodeThread].op = "start"

\* the message handled is armed and the one remembered before it was not
RisingEdge == node.msg = Armed /\ node.last \in ArmingStates \ {Armed}

\* C25 as stated: under toggle_arm the node calls start() at every rising edge it
\* observes, whether or not a session is active.
C25_Original ==
  [][NodeDecides /\ node.behavior = "toggle_arm" => (NodeCallsStart <=> RisingEdge)]_vars

\* C25: the node calls start() only from a callback's decision and once in it; under
\* toggle_arm it calls it exactly at the rising edges observed while no session is active,
\* never for a first message or a repeated arming state; under the level strategy it calls
\* it for every armed message received while no session is active and for no other; with
\* auto-start off it never handles a message; the arming state of every handled message
\* is remembered when its callback ends.
C25_AutoStart ==
  /\ [][/\ NodeCallsStart => NodeDecides
        /\ (NodeDecides /\ node.behavior = "toggle_arm")
             => (NodeCallsStart <=> (RisingEdge /\ ~Active))
        /\ (NodeDecides /\ node.behavior # "toggle_arm")
             => (node.msg = Armed /\ (NodeCallsStart <=> ~Active))
        /\ (th[NodeThread].pc = "idle" /\ th'[NodeThread].pc # "idle")
             => /\ th'[NodeThread].op = "on_status" /\ node'.msg \in ArmingStates
                /\ node.behavior = "toggle_arm" => node.last # Unset
                /\ node.behavior # "toggle_arm" => node'.msg = Armed
        /\ (th[NodeThread].pc # "idle" /\ th'[NodeThread].pc = "idle")
             => node'.last = node.msg /\ node'.msg = NoMsg
        /\ th'[NodeThread].op = "start" => th'[NodeThread].fg]_vars
  /\ [](~node.auto => th[NodeThread] = Frame0 /\ node.last = Unset)
  /\ [](th[NodeThread].pc = "idle" <=> node.msg = NoMsg)

\* a rising edge under toggle_arm after an operator's session has ended: the node's
\* attached recorder runs
C25_Witness ==
  /\ node.auto /\ node.behavior = "toggle_arm"
  /\ node.last = "standby" /\ node.msg = Armed
  /\ th[NodeThread].op = "start" /\ th[NodeThread].pc = "start_wait"
  /\ launched = 2 /\ procs[1] = "gone" /\ procs[2] = "rec"
  /\ ~Active

\* C26: the stop run by the timer of launch n signals only the recorder of launch n and
\* changes the state file only when it holds the record of launch n: a session started
\* after a manual stop is neither signalled nor cleared by an earlier session's timer.
C26_TimerOwnSession ==
  [][\A n \in Launches :
       /\ (th[n].pc = "stop_kill" /\ th'[n].pc = "ir_read") => th[n].state.pid = n
       /\ (th[n].op = "stop" /\ th'[n] # th[n] /\ store' # store)
            => ReadState(store) # None /\ ReadState(store).pid = n]_vars

\* C27: between non-overlapping detached start, stop and is_recording calls, whenever the
\* state file is absent no recorder launched by a detached start is still running, also
\* after a stop whose bounded wait ran out.
C27_NoUntracked ==
  [](AllIdle /\ store = Absent => \A n \in Launches : procs[n] # "rec")

\* C28: a stop removes only the record of the session it read and signalled: its final
\* clear leaves the state file alone when another start has written a new session's
\* record in the meantime, and its manifest is written at the session's bag path with the
\* bag name of the session it stopped.
C28_StopOwnRecord ==
  [][\A t \in Callers :
       /\ (th[t].op = "stop" /\ th[t].pc = "stop_clear" /\ th'[t].pc = "done")
            => IF ReadState(store) # None /\ ReadState(store).pid # th[t].state.pid
                 THEN store' = store
                 ELSE store' = Absent
       /\ (th[t].op = "stop" /\ th[t].pc = "stop_meta" /\ th'[t].pc = "stop_clear")
            => /\ manifests'[th[t].state.bag_path].kind = "manifest"
               /\ manifests'[th[t].state.bag_path].bag_name = th[t].state.bag_name
               /\ \A p \in BagPaths \ {th[t].state.bag_path} :
                     manifests'[p] = manifests[p]]_vars

\* C29: in every reachable state, also when commands overlap, no transfer endpoint is
\* open (listening, connected or streaming) while a detached session is active: a session
\* started after a transfer passed the gate does not overlap it.
C29_NoOverlap ==
  [](Active => \A t \in Callers : ~(th[t].op \in TcpOps /\ th[t].pc = "tcp_open"))

\* C30: metadata round trip: whenever the receiver reads the metadata text the sender
\* wrote for a file of any name and size, its parse succeeds and yields exactly that name
\* and that size; in particular no file name is taken for an error message.
C30_MetadataRoundTrip ==
  [][(/\ rcv.pc = "recv_meta" /\ rcv'.pc # "recv_meta"
      /\ net.link /\ src # NoFile
      /\ net.s2c = FormatMetadata(path, Len(src.data)))
       => /\ ParseMetadata(net.s2c) = [result |-> "ok", name |-> path,
                                       size |-> Len(src.data)]
          /\ rcv'.pc = "send_ready"
          /\ rcv'.name = path /\ rcv'.size = Len(src.data)]_vars

\* C31: on every connection that reaches the payload phase the sender has streamed
\* exactly the size it declared in the metadata when its read loop ends, and never more
\* than that before; the receiver never writes more bytes to the destination file than
\* the declared size.
C31_DeclaredSize ==
  /\ [](snd.pc \in {"read", "sendall"} => snd.pos <= snd.size)
  /\ [][(snd.pc = "read" /\ snd'.pc = "accept") => snd.pos = snd.size]_vars
  /\ [](rcv.pc \in {"loop", "return"}
         => rcv.received <= rcv.size /\ Len(dest.data) <= rcv.size)

\* C32: whatever processes exit and are created between start and the call, a stop
\* delivers its signal only to the live recorder named by the record it read, and
\* is_recording answers true only while that recorder is alive.
C32_OwnRecorder ==
  [][\A t \in Threads :
       /\ (th[t].op = "stop" /\ th[t].pc = "stop_kill" /\ th'[t].pc = "ir_read")
            => Live(th[t].state.pid)
       /\ (th[t].op = "is_recording" /\ th[t].pc # "done"
           /\ th'[t].pc = "done" /\ th'[t].ret = "true")
            => /\ ReadState(store) # None /\ Live(ReadState(store).pid)
               /\ th[t].irstate = ReadState(store)]_vars

====
